---- MODULE Spec2Model ----
(***************************************************************************)
(* Verification model of arangod/VocBase/vocbase.cpp (TRI_vocbase_t):      *)
(*   - the parity-encoded database reference counter (SpecRef),            *)
(*   - the data-source registry and the collection/view lifecycle (Spec).  *)
(***************************************************************************)
EXTENDS Integers, Sequences, FiniteSets, TLC

(***************************************************************************)
(* Universe                                                                *)
(***************************************************************************)
Threads == {"t1", "t2"}

\* most uses of the database a single thread keeps open at a time
MaxRef == 2

\* data sources: collections and views (LogicalDataSource::category())
Colls == {1}
Views == {2}
Objs == Colls \cup Views
NoObj == 0

\* names a data source can be given, and "not constructed yet"
Names == {"a", "b"}
NoName == "-"

\* most read locks on one collection a single thread keeps (useCollection
\* without releaseCollection)
MaxHold == 1

\* drop timeouts, in units of one sleep of the retry loop; negative: none
MaxTime == 1
Timeouts == (0 .. (MaxTime - 1)) \cup {-1}

\* collection->id(), collection->globallyUniqueId()
idOf(o) == o
uuidOf(o) == o
Ids == {idOf(o) : o \in Objs}
Uuids == {uuidOf(o) : o \in Colls}

Category(o) == IF o \in Colls THEN "collection" ELSE "view"

(***************************************************************************)
(* State of the reference counter (TRI_vocbase_t::_refCount, _type)        *)
(***************************************************************************)
VARIABLES
  refCount,   \* std::atomic<uint64_t> _refCount
  isSys,      \* isSystem(): the database is the system database
  marked,     \* history: some markAsDropped() call has taken effect
  rpc,        \* per thread: position inside a reference-counter call
  rop,        \* per thread: the call it is in / has just finished
  expected,   \* per thread: local `expected` of use()
  rres,       \* per thread: value returned by the finished call
  held        \* per thread: successful use()/forceUse() not yet released

refVars == <<refCount, isSys, marked, rpc, rop, expected, rres, held>>

(***************************************************************************)
(* State of the registry and of the data sources                           *)
(***************************************************************************)
VARIABLES
  byName,        \* _dataSourceByName
  byId,          \* _dataSourceById
  byUuid,        \* _dataSourceByUuid
  collections,   \* _collections
  deadCollections, \* _deadCollections
  name,          \* LogicalDataSource::name() of every object
  status,        \* LogicalCollection::status(); "NONE" before registration
  deleted,       \* LogicalDataSource::deleted()
  handles,       \* objects whose handle some caller was given
  deferred,      \* collections with a deferred DropCollectionCallback
  inventoryLock, \* _inventoryLock: number of shared holders
  lockReaders,   \* per object, per thread: shared holds of _lock
  throwNotLoaded, \* DatabaseFeature::throwCollectionNotLoadedError()
  pc,            \* per thread: position in the running operation
  op,            \* per thread: the operation it runs / has just finished
  obj,           \* per thread: the collection/view operated on
  nm,            \* per thread: the newName argument of a rename
  old,           \* per thread: local oldName of a rename
  tmo,           \* per thread: timeout argument of dropCollection
  el,            \* per thread: time measured since startTime
  res,           \* per thread: the result of the finished operation
  res2,          \* per thread: local res2, what engine->persist... returned
  invalidated,   \* per thread: QueryCache::invalidate called by the operation
  heldAtStorage, \* per thread: locks held at some storage call of the operation
  engineDrops,   \* history: per collection, calls of engine->dropCollection
  unloadCalled   \* per thread: the operation called collection->unload()

\* The exclusive sections on _dataSourceLock and on LogicalDataSource::_lock
\* contain no blocking call on another lock of this model, so each section is
\* one step; the shared holds of _lock handed out by useCollection and the
\* shared holds of _inventoryLock span several steps and are state.
regVars == <<byName, byId, byUuid, collections, deadCollections>>
objVars == <<name, status, deleted, handles, deferred>>
lockVars == <<inventoryLock, lockReaders>>
thrVars == <<pc, op, obj, nm, old, tmo, el, res>>
effVars == <<res2, invalidated, heldAtStorage, engineDrops, unloadCalled>>
mainVars == <<regVars, objVars, lockVars, throwNotLoaded, thrVars, effVars>>

(***************************************************************************)
(* _dataSourceLock with its reentrant wrappers RecursiveReadLocker and      *)
(* RecursiveWriteLocker, step by step                                       *)
(***************************************************************************)
VARIABLES
  dataSourceLock,           \* _dataSourceLock: the writer and the readers
  dataSourceLockWriteOwner, \* _dataSourceLockWriteOwner
  lockers,       \* per thread: its locker objects, innermost last
  lpc            \* per thread: position inside a locker constructor/unlock

lockerVars == <<dataSourceLock, dataSourceLockWriteOwner, lockers, lpc>>

(***************************************************************************)
(* State of shutdown()                                                     *)
(***************************************************************************)
VARIABLES
  state,        \* _state: the lifecycle state of the database
  shutdownLog,  \* history: the setState and engine->shutdownDatabase calls
  snapshot,     \* local `collections` of shutdown(): the copy of _collections
  closed,       \* history: collections on which shutdown() called close()
  unloaded,     \* history: ... on which it called unloadCollection
  spc           \* position of the thread that runs shutdown()

shutVars == <<state, shutdownLog, snapshot, closed, unloaded, spc>>

vars == <<refVars, mainVars, lockerVars, shutVars>>

RECURSIVE SumOver(_, _)
SumOver(f, S) ==
  IF S = {} THEN 0
  ELSE LET x == CHOOSE y \in S : TRUE IN f[x] + SumOver(f, S \ {x})

TotalHeld == SumOver(held, Threads)

\* variant: use() that does not look at the low bit
DeletedBitNever(v) == FALSE

\* the deleted bit: (expected & 1) != 0, refCount % 2 == 1
DeletedBit(v) == v % 2 = 1

\* TRI_vocbase_t::isDropped
IsDropped(v) == (v % 2 = 1)

\* variant: isDangling() that tests the low bit only
IsDanglingOdd(sys, v) == IF sys THEN FALSE ELSE (v % 2 = 1)

\* TRI_vocbase_t::isDangling
IsDangling(sys, v) == IF sys THEN FALSE ELSE (v = 1)

\* variant: a plain store in place of the compare-and-swap
CasSucceedsAlways(cur, exp) == TRUE

\* compare_exchange_weak(expected, updated) can only succeed when the stored
\* value equals `expected`
CasSucceeds(cur, exp) == cur = exp

\* variant: markAsDropped() that always reports having set the bit
MarkResultAlways(oldValue) == TRUE

\* the old value's test in markAsDropped: (oldValue % 2 == 0)
MarkResult(oldValue) == (oldValue % 2 = 0)

\* fetch_or(1)
FetchOr1(v) == IF v % 2 = 1 THEN v ELSE v + 1

RefFinish(t, call, r) ==
  /\ rpc' = [rpc EXCEPT ![t] = "done"]
  /\ rop' = [rop EXCEPT ![t] = call]
  /\ rres' = [rres EXCEPT ![t] = r]

\* use(): auto expected = _refCount.load()
UseBegin(t) ==
  /\ rpc[t] = "idle"
  /\ held[t] < MaxRef
  /\ rpc' = [rpc EXCEPT ![t] = "use_loop"]
  /\ rop' = [rop EXCEPT ![t] = "use"]
  /\ expected' = [expected EXCEPT ![t] = refCount]
  /\ UNCHANGED <<refCount, isSys, marked, rres, held>>
  /\ UNCHANGED <<mainVars, lockerVars, shutVars>>

\* use(): deleted bit set in the value read: return false
UseDeleted(t) ==
  /\ rpc[t] = "use_loop"
  /\ DeletedBit(expected[t])
  /\ RefFinish(t, "use", FALSE)
  /\ UNCHANGED <<refCount, isSys, marked, expected, held>>
  /\ UNCHANGED <<mainVars, lockerVars, shutVars>>

\* use(): compare_exchange_weak succeeded: return true
UseCasOk(t) ==
  /\ rpc[t] = "use_loop"
  /\ ~DeletedBit(expected[t])
  /\ CasSucceeds(refCount, expected[t])
  /\ refCount' = expected[t] + 2
  /\ held' = [held EXCEPT ![t] = @ + 1]
  /\ RefFinish(t, "use", TRUE)
  /\ UNCHANGED <<isSys, marked, expected>>
  /\ UNCHANGED <<mainVars, lockerVars, shutVars>>

\* use(): compare_exchange_weak failed (the value moved, or spuriously):
\* expected = _refCount.load() and loop
UseCasFail(t) ==
  /\ rpc[t] = "use_loop"
  /\ ~DeletedBit(expected[t])
  /\ expected' = [expected EXCEPT ![t] = refCount]
  /\ UNCHANGED <<refCount, isSys, marked, rpc, rop, rres, held>>
  /\ UNCHANGED <<mainVars, lockerVars, shutVars>>

\* forceUse(): _refCount += 2
ForceUse(t) ==
  /\ rpc[t] = "idle"
  /\ held[t] < MaxRef
  /\ refCount' = refCount + 2
  /\ held' = [held EXCEPT ![t] = @ + 1]
  /\ RefFinish(t, "forceUse", TRUE)
  /\ UNCHANGED <<isSys, marked, expected>>
  /\ UNCHANGED <<mainVars, lockerVars, shutVars>>

\* release(): fetch_sub(2); the caller releases a use it holds
Release(t) ==
  /\ rpc[t] = "idle"
  /\ held[t] > 0
  /\ refCount' = refCount - 2
  /\ held' = [held EXCEPT ![t] = @ - 1]
  /\ RefFinish(t, "release", TRUE)
  /\ UNCHANGED <<isSys, marked, expected>>
  /\ UNCHANGED <<mainVars, lockerVars, shutVars>>

\* markAsDropped(): fetch_or(1) (the TRI_ASSERT(!isSystem()) before it is
\* compiled out of release builds)
MarkAsDropped(t) ==
  /\ rpc[t] = "idle"
  /\ refCount' = FetchOr1(refCount)
  /\ marked' = TRUE
  /\ RefFinish(t, "markAsDropped", MarkResult(refCount))
  /\ UNCHANGED <<isSys, expected, held>>
  /\ UNCHANGED <<mainVars, lockerVars, shutVars>>

\* isDangling()
QueryDangling(t) ==
  /\ rpc[t] = "idle"
  /\ RefFinish(t, "isDangling", IsDangling(isSys, refCount))
  /\ UNCHANGED <<refCount, isSys, marked, expected, held>>
  /\ UNCHANGED <<mainVars, lockerVars, shutVars>>

\* isDropped()
QueryDropped(t) ==
  /\ rpc[t] = "idle"
  /\ RefFinish(t, "isDropped", IsDropped(refCount))
  /\ UNCHANGED <<refCount, isSys, marked, expected, held>>
  /\ UNCHANGED <<mainVars, lockerVars, shutVars>>

\* the call returns to its caller
RefReturn(t) ==
  /\ rpc[t] = "done"
  /\ rpc' = [rpc EXCEPT ![t] = "idle"]
  /\ rop' = [rop EXCEPT ![t] = "none"]
  /\ rres' = [rres EXCEPT ![t] = FALSE]
  /\ expected' = [expected EXCEPT ![t] = 0]
  /\ UNCHANGED <<refCount, isSys, marked, held>>
  /\ UNCHANGED <<mainVars, lockerVars, shutVars>>

\* TRI_vocbase_t::TRI_vocbase_t: empty registry, no lock held
InitMain ==
  /\ byName = [n \in Names |-> NoObj]
  /\ byId = [i \in Ids |-> NoObj]
  /\ byUuid = [u \in Uuids |-> NoObj]
  /\ collections = <<>>
  /\ deadCollections = <<>>
  /\ name = [o \in Objs |-> NoName]
  /\ status = [c \in Colls |-> "NONE"]
  /\ deleted = [o \in Objs |-> FALSE]
  /\ handles = {}
  /\ deferred = {}
  /\ inventoryLock = 0
  /\ lockReaders = [o \in Objs |-> [t \in Threads |-> 0]]
  /\ pc = [t \in Threads |-> "idle"]
  /\ op = [t \in Threads |-> "none"]
  /\ obj = [t \in Threads |-> NoObj]
  /\ nm = [t \in Threads |-> NoName]
  /\ old = [t \in Threads |-> NoName]
  /\ tmo = [t \in Threads |-> -1]
  /\ el = [t \in Threads |-> 0]
  /\ res = [t \in Threads |-> "none"]
  /\ res2 = [t \in Threads |-> "none"]
  /\ invalidated = [t \in Threads |-> FALSE]
  /\ heldAtStorage = [t \in Threads |-> {}]
  /\ engineDrops = [c \in Colls |-> 0]
  /\ unloadCalled = [t \in Threads |-> FALSE]

\* TRI_vocbase_t::TRI_vocbase_t: _refCount(0)
InitCounter ==
  /\ refCount = 0
  /\ marked = FALSE
  /\ rpc = [t \in Threads |-> "idle"]
  /\ rop = [t \in Threads |-> "none"]
  /\ expected = [t \in Threads |-> 0]
  /\ rres = [t \in Threads |-> FALSE]
  /\ held = [t \in Threads |-> 0]

\* no thread holds _dataSourceLock; _dataSourceLockWriteOwner is the
\* default std::thread::id
\* TRI_vocbase_t::TRI_vocbase_t: _state(State::NORMAL); shutdown() not
\* called
InitShutdown ==
  /\ state = "NORMAL"
  /\ shutdownLog = <<>>
  /\ snapshot = <<>>
  /\ closed = {}
  /\ unloaded = {}
  /\ spc = "idle"

InitLockers ==
  /\ dataSourceLock = [writer |-> "none", readers |-> [t \in Threads |-> 0]]
  /\ dataSourceLockWriteOwner = "none"
  /\ lockers = [t \in Threads |-> <<>>]
  /\ lpc = [t \in Threads |-> "run"]

InitRef ==
  /\ InitLockers
  /\ InitShutdown
  /\ InitCounter
  /\ isSys \in BOOLEAN
  /\ InitMain
  /\ throwNotLoaded = FALSE
  /\ marked = FALSE
NextRef ==
  \E t \in Threads :
    \/ UseBegin(t)
    \/ UseDeleted(t)
    \/ UseCasOk(t)
    \/ UseCasFail(t)
    \/ ForceUse(t)
    \/ Release(t)
    \/ MarkAsDropped(t)
    \/ QueryDangling(t)
    \/ QueryDropped(t)
    \/ RefReturn(t)

SpecRef == InitRef /\ [][NextRef]_vars

(***************************************************************************)
(* The registry maps                                                       *)
(***************************************************************************)
\* std::unordered_map::erase(key)
Erase(m, k) == [m EXCEPT ![k] = NoObj]

\* std::unordered_map::emplace(key, value): no effect if the key is present
Emplace(m, k, o) == IF m[k] = NoObj THEN [m EXCEPT ![k] = o] ELSE m

\* std::unordered_map::size()
Size(m) == Cardinality({k \in DOMAIN m : m[k] # NoObj})

\* checkCollectionInvariants: the two assertions
CheckCollectionInvariants(bn, bi, bu) ==
  /\ Size(bn) = Size(bi)
  /\ Size(bu) <= Size(bi)

\* std::vector::erase of the first element pointing to c
RECURSIVE RemoveFirst(_, _)
RemoveFirst(seq, c) ==
  IF seq = <<>> THEN <<>>
  ELSE IF Head(seq) = c THEN Tail(seq)
  ELSE <<Head(seq)>> \o RemoveFirst(Tail(seq), c)

InSeq(seq, c) == \E i \in 1 .. Len(seq) : seq[i] = c

\* variant: a by-name lookup that never finds the key
NameInUseNever(bn, n) == FALSE

\* the key n is present in _dataSourceByName (find(n) != end(), and
\* emplace(n, ...) inserts nothing)
NameInUse(bn, n) == bn[n] # NoObj

\* variant: a registerCollection that leaves the by-name entry behind when
\* the identifier is a duplicate
RegisterCollectionNoRollback(bn, bi, bu, c, n, id, uuid) ==
  IF NameInUse(bn, n)
    THEN [err |-> "DuplicateName", bn |-> bn, bi |-> bi, bu |-> bu]
  ELSE IF bi[id] # NoObj \/ bu[uuid] # NoObj
    THEN [err |-> "DuplicateIdentifier",
          bn |-> Emplace(bn, n, c), bi |-> bi, bu |-> bu]
  ELSE [err |-> "OK", bn |-> Emplace(bn, n, c),
        bi |-> Emplace(bi, id, c), bu |-> Emplace(bu, uuid, c)]

\* registerCollection: the three emplace calls with their rollbacks, for a
\* collection with name n, identifier id and globallyUniqueId uuid
RegisterCollectionWith(bn, bi, bu, c, n, id, uuid) ==
  IF NameInUse(bn, n)
    THEN [err |-> "DuplicateName", bn |-> bn, bi |-> bi, bu |-> bu]
  ELSE IF bi[id] # NoObj
    THEN [err |-> "DuplicateIdentifier",
          bn |-> Erase(Emplace(bn, n, c), n), bi |-> bi, bu |-> bu]
  ELSE IF bu[uuid] # NoObj
    THEN [err |-> "DuplicateIdentifier",
          bn |-> Erase(Emplace(bn, n, c), n),
          bi |-> Erase(Emplace(bi, id, c), id), bu |-> bu]
  ELSE [err |-> "OK", bn |-> Emplace(bn, n, c),
        bi |-> Emplace(bi, id, c), bu |-> Emplace(bu, uuid, c)]

\* registerCollection of the collection c, whose id and uuid are its own
RegisterCollectionMaps(bn, bi, bu, c, n) ==
  RegisterCollectionWith(bn, bi, bu, c, n, idOf(c), uuidOf(c))

\* variant: an unregisterCollection that erases nothing
UnregisterCollectionKeep(bn, bi, bu, c, cname) ==
  [bn |-> bn, bi |-> bi, bu |-> bu]

\* unregisterCollection: erase by id, then by the collection's current name
\* and uuid; nothing if the id is absent or belongs to a view
UnregisterCollectionMaps(bn, bi, bu, c, cname) ==
  IF bi[idOf(c)] = NoObj \/ Category(bi[idOf(c)]) # "collection"
    THEN [bn |-> bn, bi |-> bi, bu |-> bu]
    ELSE [bn |-> Erase(bn, cname), bi |-> Erase(bi, idOf(c)),
          bu |-> Erase(bu, uuidOf(c))]

\* registerView: emplace by name and by id, with rollback, for a view with
\* name n and identifier id
RegisterViewWith(bn, bi, v, n, id) ==
  IF NameInUse(bn, n)
    THEN [err |-> "DuplicateName", bn |-> bn, bi |-> bi]
  ELSE IF bi[id] # NoObj
    THEN [err |-> "DuplicateIdentifier",
          bn |-> Erase(Erase(Emplace(bn, n, v), n), n), bi |-> bi]
  ELSE [err |-> "OK", bn |-> Emplace(bn, n, v), bi |-> Emplace(bi, id, v)]

\* registerView of the view v, whose id is its own
RegisterViewMaps(bn, bi, v, n) == RegisterViewWith(bn, bi, v, n, idOf(v))

\* unregisterView: erase by id, then by the view's current name
UnregisterViewMaps(bn, bi, v, vname) ==
  IF bi[idOf(v)] = NoObj \/ Category(bi[idOf(v)]) # "view"
    THEN [bn |-> bn, bi |-> bi]
    ELSE [bn |-> Erase(bn, vname), bi |-> Erase(bi, idOf(v))]

\* lookupDataSource(name): by name, then by uuid (no uuid is spelled like a
\* name, so the second lookup finds nothing for a name)
LookupDataSourceByName(bn, bu, n) == IF bn[n] # NoObj THEN bn[n] ELSE NoObj

\* variant: lookupView without the test of the category
LookupViewAny(bn, bu, n) == LookupDataSourceByName(bn, bu, n)

\* lookupView(name): lookupDataSource(name), a view or nothing
LookupView(bn, bu, n) ==
  LET o == LookupDataSourceByName(bn, bu, n) IN
    IF o # NoObj /\ Category(o) = "view" THEN o ELSE NoObj

(***************************************************************************)
(* Locks                                                                   *)
(***************************************************************************)
NoReaders(o) == \A t \in Threads : lockReaders[o][t] = 0

\* a write lock (WRITE_LOCKER_EVENTUAL, tryLock) on LogicalDataSource::_lock
\* can be acquired: no thread holds it shared
CanWrite(o) == NoReaders(o)

(***************************************************************************)
(* Operations                                                              *)
(***************************************************************************)
\* variant: a setStatus that is lost
SetStatusNoop(st, c, s) == st

\* variant: a setStatus that does not mark a collection as LOADING
SetStatusSkipLoading(st, c, s) ==
  IF s = "LOADING" THEN st ELSE [st EXCEPT ![c] = s]

\* variant: a setStatus that does not mark a collection as DELETED
SetStatusSkipDeleted(st, c, s) ==
  IF s = "DELETED" THEN st ELSE [st EXCEPT ![c] = s]

\* variant: a setStatus that does not mark a collection as UNLOADING
SetStatusSkipUnloading(st, c, s) ==
  IF s = "UNLOADING" THEN st ELSE [st EXCEPT ![c] = s]

\* collection->setStatus(s)
SetStatus(st, c, s) == [st EXCEPT ![c] = s]

Locals(t, p, o, n, ol, tm, e, r) ==
  /\ pc' = [pc EXCEPT ![t] = p]
  /\ obj' = [obj EXCEPT ![t] = o]
  /\ nm' = [nm EXCEPT ![t] = n]
  /\ old' = [old EXCEPT ![t] = ol]
  /\ tmo' = [tmo EXCEPT ![t] = tm]
  /\ el' = [el EXCEPT ![t] = e]
  /\ res' = [res EXCEPT ![t] = r]

\* the operation is over with result r
Finish(t, o, r) == Locals(t, "done", o, NoName, NoName, -1, 0, r)

\* the operation goes on at p
Goto(t, p) == Locals(t, p, obj[t], nm[t], old[t], tmo[t], el[t], res[t])

\* objects not constructed yet (the object of a creation that fails on the
\* duplicate name check is destroyed at once and needs no identity here)
FreshColls == {c \in Colls : name[c] = NoName}
FreshViews == {v \in Views : name[v] = NoName}
Least(S) == CHOOSE x \in S : \A y \in S : x <= y

\* createCollection / createCollectionWorker: under the shared inventory
\* lock and the data-source write lock: duplicate name check,
\* registerCollection, setStatus(LOADED), persistPhysicalCollection
\* (unregisterCollection if it throws); then, the data-source lock given
\* back, engine->persistCollection, whose result res2 is not looked at
CreateCollection(t, n) ==
  /\ pc[t] = "idle"
  /\ op' = [op EXCEPT ![t] = "createCollection"]
  /\ LET c == Least(FreshColls)
         r == RegisterCollectionMaps(byName, byId, byUuid, c, n)
         u == UnregisterCollectionMaps(r.bn, r.bi, r.bu, c, n)
     IN
       \/ /\ NameInUse(byName, n)
          /\ Locals(t, "done", NoObj, n, NoName, -1, 0, "DuplicateName")
          /\ UNCHANGED <<regVars, name, status, handles, res2, heldAtStorage>>
       \/ /\ ~NameInUse(byName, n)
          /\ FreshColls # {}
          /\ r.err # "OK"
          /\ byName' = r.bn /\ byId' = r.bi /\ byUuid' = r.bu
          /\ Locals(t, "done", NoObj, n, NoName, -1, 0, r.err)
          /\ UNCHANGED <<collections, deadCollections, name, status, handles,
                         res2, heldAtStorage>>
       \/ /\ ~NameInUse(byName, n)
          /\ FreshColls # {}
          /\ r.err = "OK"
          /\ name' = [name EXCEPT ![c] = n]
          /\ collections' = Append(collections, c)
          /\ status' = SetStatus(status, c, "LOADED")
          /\ UNCHANGED deadCollections
          /\ heldAtStorage' =
               [heldAtStorage EXCEPT ![t] = @ \cup {"inventory", "dataSource"}]
          /\ \/ /\ byName' = r.bn /\ byId' = r.bi /\ byUuid' = r.bu
                /\ handles' = handles \cup {c}
                /\ Locals(t, "done", c, n, NoName, -1, 0, "OK")
                /\ \E e \in {"OK", "Error"} : res2' = [res2 EXCEPT ![t] = e]
             \/ /\ byName' = u.bn /\ byId' = u.bi /\ byUuid' = u.bu
                /\ UNCHANGED <<handles, res2>>
                /\ Locals(t, "done", c, n, NoName, -1, 0, "Error")
  /\ UNCHANGED <<deleted, deferred, lockVars, throwNotLoaded>>
  /\ UNCHANGED <<refVars, lockerVars, shutVars, invalidated, engineDrops,
                 unloadCalled>>

\* registerCollection(doLock = true, collection): the storage engine adds a
\* collection it found on disk: maps, _collections, status UNLOADED
RegisterCollection(t, n) ==
  /\ pc[t] = "idle"
  /\ op' = [op EXCEPT ![t] = "registerCollection"]
  /\ FreshColls # {}
  /\ LET c == Least(FreshColls)
         r == RegisterCollectionMaps(byName, byId, byUuid, c, n)
     IN
       /\ byName' = r.bn /\ byId' = r.bi /\ byUuid' = r.bu
       /\ IF r.err = "OK"
            THEN /\ name' = [name EXCEPT ![c] = n]
                 /\ collections' = Append(collections, c)
                 /\ status' = SetStatus(status, c, "UNLOADED")
                 /\ handles' = handles \cup {c}
                 /\ Finish(t, c, "OK")
            ELSE /\ UNCHANGED <<collections, name, status, handles>>
                 /\ Finish(t, NoObj, r.err)
  /\ UNCHANGED <<deadCollections, deleted, deferred, lockVars, throwNotLoaded>>
  /\ UNCHANGED <<refVars, lockerVars, shutVars, effVars>>

\* createView / createViewWorker: duplicate name check, registerView,
\* view->open() (unregisterView if it throws)
CreateView(t, n) ==
  /\ pc[t] = "idle"
  /\ op' = [op EXCEPT ![t] = "createView"]
  /\ LET v == Least(FreshViews)
         r == RegisterViewMaps(byName, byId, v, n)
         u == UnregisterViewMaps(r.bn, r.bi, v, n)
     IN
       \/ /\ NameInUse(byName, n)
          /\ Locals(t, "done", NoObj, n, NoName, -1, 0, "DuplicateName")
          /\ UNCHANGED <<byName, byId, name, handles, res2, heldAtStorage>>
       \/ /\ ~NameInUse(byName, n)
          /\ FreshViews # {}
          /\ r.err # "OK"
          /\ byName' = r.bn /\ byId' = r.bi
          /\ Locals(t, "done", NoObj, n, NoName, -1, 0, r.err)
          /\ UNCHANGED <<name, handles, res2, heldAtStorage>>
       \/ /\ ~NameInUse(byName, n)
          /\ FreshViews # {}
          /\ r.err = "OK"
          /\ \/ /\ byName' = r.bn /\ byId' = r.bi
                /\ name' = [name EXCEPT ![v] = n]
                /\ handles' = handles \cup {v}
                /\ Locals(t, "done", v, n, NoName, -1, 0, "OK")
                /\ \E e \in {"OK", "Error"} : res2' = [res2 EXCEPT ![t] = e]
                /\ heldAtStorage' =
                     [heldAtStorage EXCEPT ![t] = @ \cup {"inventory"}]
             \/ /\ byName' = u.bn /\ byId' = u.bi
                /\ UNCHANGED <<name, handles, res2, heldAtStorage>>
                /\ Locals(t, "done", NoObj, n, NoName, -1, 0, "Error")
  /\ UNCHANGED <<byUuid, collections, deadCollections, status, deleted,
                 deferred, lockVars, throwNotLoaded>>
  /\ UNCHANGED <<refVars, lockerVars, shutVars, invalidated, engineDrops,
                 unloadCalled>>

\* lookupDataSource(name) under RECURSIVE_READ_LOCKER
LookupDataSource(t, n) ==
  /\ pc[t] = "idle"
  /\ op' = [op EXCEPT ![t] = "lookupDataSource"]
  /\ LET o == LookupDataSourceByName(byName, byUuid, n) IN
       Finish(t, o, IF o = NoObj THEN "Absent" ELSE "Found")
  /\ UNCHANGED <<regVars, objVars, lockVars, throwNotLoaded>>
  /\ UNCHANGED <<refVars, lockerVars, shutVars, effVars>>

\* useCollection(name): lookup under RECURSIVE_READ_LOCKER, then
\* useCollectionInternal
UseCollectionByName(t, n) ==
  /\ pc[t] = "idle"
  /\ op' = [op EXCEPT ![t] = "useCollection"]
  /\ LET o == byName[n] IN
       IF o # NoObj /\ Category(o) = "collection"
         THEN /\ lockReaders[o][t] < MaxHold
              /\ Locals(t, "lc_read", o, NoName, NoName, -1, 0, "none")
         ELSE Finish(t, NoObj, "NotFound")
  /\ UNCHANGED <<regVars, objVars, lockVars, throwNotLoaded>>
  /\ UNCHANGED <<refVars, lockerVars, shutVars, effVars>>

\* useCollection(collection, status): the caller has the handle
UseCollection(t, c) ==
  /\ pc[t] = "idle"
  /\ op' = [op EXCEPT ![t] = "useCollection"]
  /\ c \in handles \cap Colls
  /\ lockReaders[c][t] < MaxHold
  /\ Locals(t, "lc_read", c, NoName, NoName, -1, 0, "none")
  /\ UNCHANGED <<regVars, objVars, lockVars, throwNotLoaded>>
  /\ UNCHANGED <<refVars, lockerVars, shutVars, effVars>>

\* variant: a loadCollection that reports every collection it gives up on
\* as not found
GiveUpErrorNotFound(s) == "NotFound"

\* loadCollection: the error returned for a status it gives up on:
\* DELETED is DATA_SOURCE_NOT_FOUND, CORRUPTED is CORRUPTED_COLLECTION
GiveUpError(s) == IF s = "DELETED" THEN "NotFound" ELSE "Corrupted"

\* loadCollection, first part: under READ_LOCKER_EVENTUAL; a LOADED
\* collection is returned with the read lock kept (locker.steal())
LoadCollectionRead(t) ==
  /\ pc[t] \in {"lc_read", "lc_retry"}
  /\ UNCHANGED op
  /\ LET c == obj[t] IN
       CASE status[c] = "LOADED" ->
              /\ lockReaders' = [lockReaders EXCEPT ![c][t] = @ + 1]
              /\ Finish(t, c, "OK")
         [] status[c] \in {"DELETED", "CORRUPTED"} ->
              /\ Finish(t, c, GiveUpError(status[c]))
              /\ UNCHANGED lockReaders
         [] OTHER ->
              /\ Goto(t, "lc_write")
              /\ UNCHANGED lockReaders
  /\ UNCHANGED <<regVars, objVars, inventoryLock, throwNotLoaded>>
  /\ UNCHANGED <<refVars, lockerVars, shutVars, effVars>>

\* variant: a loadCollection that does not look at the deleted flag
DropGoingOnNever(del, c) == FALSE

\* loadCollection, the UNLOADING case: if (collection->deleted()), "drop
\* call going on, we must abort"
DropGoingOn(del, c) == del[c]

\* loadCollection, second part: under WRITE_LOCKER_EVENTUAL
LoadCollectionWrite(t) ==
  /\ pc[t] = "lc_write"
  /\ UNCHANGED op
  /\ CanWrite(obj[t])
  /\ LET c == obj[t] IN
       CASE status[c] = "LOADED" ->
              /\ Goto(t, "lc_read")
              /\ UNCHANGED status
         [] status[c] = "UNLOADING" /\ DropGoingOn(deleted, c) ->
              /\ Finish(t, c, "NotFound")
              /\ UNCHANGED status
         [] status[c] = "UNLOADING" /\ ~DropGoingOn(deleted, c) ->
              \* the unload is cancelled; loadCollection again
              /\ status' = SetStatus(status, c, "LOADED")
              /\ Goto(t, "lc_retry")
         [] status[c] \in {"DELETED", "CORRUPTED"} ->
              /\ Finish(t, c, GiveUpError(status[c]))
              /\ UNCHANGED status
         [] status[c] = "LOADING" ->
              /\ Goto(t, "lc_poll")
              /\ UNCHANGED status
         [] status[c] = "UNLOADED" ->
              /\ status' = SetStatus(status, c, "LOADING")
              /\ Goto(t, "lc_open")
         [] OTHER ->
              /\ Finish(t, c, "Internal")
              /\ UNCHANGED status
  /\ UNCHANGED <<regVars, name, deleted, handles, deferred, lockVars,
                 throwNotLoaded>>
  /\ UNCHANGED <<refVars, lockerVars, shutVars, effVars>>

\* loadCollection, the loop on LOADING: leave it when the status changed;
\* otherwise give up if the server is configured to, or sleep
LoadCollectionPoll(t) ==
  /\ pc[t] = "lc_poll"
  /\ UNCHANGED op
  /\ \/ /\ status[obj[t]] # "LOADING"
        /\ Goto(t, "lc_read")
     \/ /\ status[obj[t]] = "LOADING"
        /\ throwNotLoaded
        /\ Finish(t, obj[t], "NotLoaded")
  /\ UNCHANGED <<regVars, objVars, lockVars, throwNotLoaded>>
  /\ UNCHANGED <<refVars, lockerVars, shutVars, effVars>>

\* loadCollection: collection->open() without the lock; an exception makes
\* the collection CORRUPTED
LoadCollectionOpen(t) ==
  /\ pc[t] = "lc_open"
  /\ UNCHANGED op
  /\ \/ /\ Goto(t, "lc_relock")
        /\ UNCHANGED status
     \/ /\ status' = SetStatus(status, obj[t], "CORRUPTED")
        /\ Finish(t, obj[t], "Corrupted")
  /\ UNCHANGED <<regVars, name, deleted, handles, deferred, lockVars,
                 throwNotLoaded>>
  /\ UNCHANGED <<refVars, lockerVars, shutVars, effVars>>

\* loadCollection: locker.lockEventual(); setStatus(LOADED); load(); unlock;
\* then loadCollection again
LoadCollectionRelock(t) ==
  /\ pc[t] = "lc_relock"
  /\ UNCHANGED op
  /\ CanWrite(obj[t])
  /\ status' = SetStatus(status, obj[t], "LOADED")
  /\ Goto(t, "lc_read")
  /\ UNCHANGED <<regVars, name, deleted, handles, deferred, lockVars,
                 throwNotLoaded>>
  /\ UNCHANGED <<refVars, lockerVars, shutVars, effVars>>

\* releaseCollection: collection->_lock.unlock() by a thread that holds it
ReleaseCollection(t, c) ==
  /\ pc[t] = "idle"
  /\ c \in Colls
  /\ lockReaders[c][t] > 0
  /\ lockReaders' = [lockReaders EXCEPT ![c][t] = @ - 1]
  /\ UNCHANGED <<regVars, objVars, inventoryLock, throwNotLoaded, thrVars>>
  /\ UNCHANGED <<refVars, lockerVars, shutVars, effVars>>

\* unloadCollection under WRITE_LOCKER_EVENTUAL, for the collection c;
\* after the section of a LOADED collection collection->unload() and
\* engine->unloadCollection are called
UnloadSection(t, c) ==
  /\ CanWrite(c)
  /\ CASE status[c] = "CORRUPTED" ->
            /\ Finish(t, c, "Corrupted")
            /\ UNCHANGED <<status, unloadCalled>>
       [] status[c] \in {"UNLOADED", "UNLOADING", "DELETED"} ->
            /\ Finish(t, c, "OK")
            /\ UNCHANGED <<status, unloadCalled>>
       [] status[c] = "LOADING" ->
            /\ Locals(t, "ul_poll", c, NoName, NoName, -1, 0, "none")
            /\ UNCHANGED <<status, unloadCalled>>
       [] status[c] = "LOADED" ->
            /\ status' = SetStatus(status, c, "UNLOADING")
            /\ unloadCalled' = [unloadCalled EXCEPT ![t] = TRUE]
            /\ Finish(t, c, "OK")
       [] OTHER ->
            /\ Finish(t, c, "Internal")
            /\ UNCHANGED <<status, unloadCalled>>
  /\ UNCHANGED <<regVars, name, deleted, handles, deferred, lockVars,
                 throwNotLoaded>>
  /\ UNCHANGED <<refVars, lockerVars, shutVars, res2, invalidated,
                 heldAtStorage, engineDrops>>

\* unloadCollection(collection, force)
UnloadCollection(t, c) ==
  /\ pc[t] = "idle"
  /\ op' = [op EXCEPT ![t] = "unloadCollection"]
  /\ c \in handles \cap Colls
  /\ UnloadSection(t, c)

\* unloadCollection, the loop on LOADING: once the status changed,
\* unloadCollection again
UnloadCollectionPoll(t) ==
  /\ pc[t] = "ul_poll"
  /\ UNCHANGED op
  /\ status[obj[t]] # "LOADING"
  /\ UnloadSection(t, obj[t])

\* the storage engine's unload callback (scheduled by
\* engine->unloadCollection): under the write lock an UNLOADING collection
\* is closed and becomes UNLOADED
UnloadCollectionCallback(c) ==
  /\ status[c] = "UNLOADING"
  /\ CanWrite(c)
  /\ status' = [status EXCEPT ![c] = "UNLOADED"]
  /\ UNCHANGED <<regVars, name, deleted, handles, deferred, lockVars,
                 throwNotLoaded, thrVars>>
  /\ UNCHANGED <<refVars, lockerVars, shutVars, effVars>>

Min(a, b) == IF a <= b THEN a ELSE b

\* variant: the retry loop gives up after any failed round
TimedOutAlways(timeout, elapsed) == TRUE

\* variant: the elapsed time is never tested
TimedOutNever(timeout, elapsed) == FALSE

\* the test that ends the retry loop of dropCollectionWorker:
\* timeout >= 0.0 && TRI_microtime() > startTime + timeout
TimedOut(timeout, elapsed) == timeout >= 0 /\ elapsed > timeout

\* dropCollection: READ_LOCKER(_inventoryLock) and the start of
\* dropCollectionWorker (startTime = TRI_microtime())
DropCollection(t, c, tm) ==
  /\ pc[t] = "idle"
  /\ op' = [op EXCEPT ![t] = "dropCollection"]
  /\ c \in handles \cap Colls
  /\ Locals(t, "dcw_loop", c, NoName, NoName, tm, 0, "none")
  /\ inventoryLock' = inventoryLock + 1
  /\ UNCHANGED <<regVars, objVars, lockReaders, throwNotLoaded>>
  /\ UNCHANGED <<refVars, lockerVars, shutVars, effVars>>

\* dropCollectionWorker, one round of the loop in which locker.tryLock()
\* fails: the data-source lock is released again, then either LockTimeout
\* or a sleep
DropCollectionWorkerRetry(t) ==
  /\ pc[t] = "dcw_loop"
  /\ UNCHANGED op
  /\ ~CanWrite(obj[t])
  /\ \E now \in el[t] .. MaxTime :
       IF TimedOut(tmo[t], now)
         THEN /\ Finish(t, obj[t], "LockTimeout")
              /\ inventoryLock' = inventoryLock - 1
         ELSE /\ Locals(t, "dcw_loop", obj[t], NoName, NoName, tmo[t],
                        Min(now + 1, MaxTime), "none")
              /\ UNCHANGED inventoryLock
  /\ UNCHANGED <<regVars, objVars, lockReaders, throwNotLoaded>>
  /\ UNCHANGED <<refVars, lockerVars, shutVars, effVars>>

\* engine->dropCollection calls counted for one collection
MaxDrops == 2

\* variant: a switch that also drops a CORRUPTED collection
DropsLoadedOrCorrupted(s) == s \in {"LOADED", "UNLOADING", "CORRUPTED"}

\* dropCollectionWorker: the case labels TRI_VOC_COL_STATUS_LOADED and
\* TRI_VOC_COL_STATUS_UNLOADING of the switch on the status
DropsLoaded(s) == s \in {"LOADED", "UNLOADING"}

\* dropCollectionWorker with both locks held: QueryCache::invalidate, then
\* the switch on the status
DropCollectionWorker(t) ==
  /\ pc[t] = "dcw_loop"
  /\ UNCHANGED op
  /\ CanWrite(obj[t])
  /\ LET c == obj[t]
         u == UnregisterCollectionMaps(byName, byId, byUuid, c, name[c])
     IN
       CASE status[c] = "DELETED" ->
              /\ byName' = u.bn /\ byId' = u.bi /\ byUuid' = u.bu
              /\ Finish(t, c, "OK")
              /\ inventoryLock' = inventoryLock - 1
              /\ UNCHANGED <<status, deleted, heldAtStorage, engineDrops>>
         [] status[c] = "LOADING" ->
              \* DROP_AGAIN
              /\ Locals(t, "dc_again", c, NoName, NoName, tmo[t], 0, "none")
              /\ inventoryLock' = inventoryLock - 1
              /\ UNCHANGED <<byName, byId, byUuid, status, deleted,
                             heldAtStorage, engineDrops>>
         [] status[c] = "UNLOADED" ->
              \/ \* changeCollection throws: deleted(false), the error
                 /\ ~deleted[c]
                 /\ heldAtStorage' =
                   [heldAtStorage EXCEPT
                      ![t] = @ \cup {"inventory", "dataSource", "status"}]
                 /\ Finish(t, c, "Error")
                 /\ inventoryLock' = inventoryLock - 1
                 /\ UNCHANGED <<byName, byId, byUuid, status, deleted,
                                engineDrops>>
              \/ \* DELETED, unregistered; engine->dropCollection and the
                 \* callback follow, still under the inventory lock
                 /\ deleted' = [deleted EXCEPT ![c] = TRUE]
                 /\ heldAtStorage' =
                      [heldAtStorage EXCEPT ![t] =
                         IF deleted[c] THEN @
                         ELSE @ \cup {"inventory", "dataSource", "status"}]
                 /\ status' = SetStatus(status, c, "DELETED")
                 /\ byName' = u.bn /\ byId' = u.bi /\ byUuid' = u.bu
                 /\ Locals(t, "cb_status_inv", c, NoName, NoName, -1, 0,
                           "none")
                 /\ engineDrops' =
                      [engineDrops EXCEPT ![c] = Min(@ + 1, MaxDrops)]
                 /\ UNCHANGED inventoryLock
         [] DropsLoaded(status[c]) ->
              /\ deleted' = [deleted EXCEPT ![c] = TRUE]
              /\ inventoryLock' = inventoryLock - 1
              /\ heldAtStorage' =
                   [heldAtStorage EXCEPT
                      ![t] = @ \cup {"inventory", "dataSource", "status"}]
              /\ \/ \* updateProperties fails: return res.errorNumber()
                    /\ Finish(t, c, "Error")
                    /\ UNCHANGED <<byName, byId, byUuid, status, engineDrops>>
                 \/ \* DROP_PERFORM
                    /\ status' = SetStatus(status, c, "DELETED")
                    /\ byName' = u.bn /\ byId' = u.bi /\ byUuid' = u.bu
                    /\ Locals(t, "dc_perform", c, NoName, NoName, -1, 0,
                              "none")
                    /\ engineDrops' =
                         [engineDrops EXCEPT ![c] = Min(@ + 1, MaxDrops)]
         [] OTHER ->
              /\ Finish(t, c, "Internal")
              /\ inventoryLock' = inventoryLock - 1
              /\ UNCHANGED <<byName, byId, byUuid, status, deleted,
                             heldAtStorage, engineDrops>>
  /\ UNCHANGED <<collections, deadCollections, name, handles, deferred,
                 lockReaders, throwNotLoaded>>
  /\ invalidated' = [invalidated EXCEPT ![t] = TRUE]
  /\ UNCHANGED <<refVars, lockerVars, shutVars, res2, unloadCalled>>

\* dropCollection, state == DROP_AGAIN: sleep, then the next iteration takes
\* the inventory lock and calls dropCollectionWorker again
DropCollectionAgain(t) ==
  /\ pc[t] = "dc_again"
  /\ UNCHANGED op
  /\ Locals(t, "dcw_loop", obj[t], NoName, NoName, tmo[t], 0, "none")
  /\ inventoryLock' = inventoryLock + 1
  /\ UNCHANGED <<regVars, objVars, lockReaders, throwNotLoaded>>
  /\ UNCHANGED <<refVars, lockerVars, shutVars, effVars>>

\* dropCollection, state == DROP_PERFORM: in recovery the callback runs at
\* once, otherwise it is deferred to the cleanup thread
DropCollectionPerform(t) ==
  /\ pc[t] = "dc_perform"
  /\ UNCHANGED op
  /\ \/ /\ Goto(t, "cb_status")
        /\ UNCHANGED deferred
     \/ /\ deferred' = deferred \cup {obj[t]}
        /\ Finish(t, obj[t], "OK")
  /\ UNCHANGED <<regVars, name, status, deleted, handles, lockVars,
                 throwNotLoaded>>
  /\ UNCHANGED <<refVars, lockerVars, shutVars, effVars>>

\* the cleanup thread runs a deferred DropCollectionCallback
CleanupDropCollection(t, c) ==
  /\ pc[t] = "idle"
  /\ op' = [op EXCEPT ![t] = "DropCollectionCallback"]
  /\ c \in deferred
  /\ deferred' = deferred \ {c}
  /\ Locals(t, "cb_status", c, NoName, NoName, -1, 0, "none")
  /\ UNCHANGED <<regVars, name, status, deleted, handles, lockVars,
                 throwNotLoaded>>
  /\ UNCHANGED <<refVars, lockerVars, shutVars, effVars>>

\* DropCollectionCallback, first section: under the status write lock, give
\* up unless the status is DELETED
DropCollectionCallbackStatus(t) ==
  /\ pc[t] \in {"cb_status", "cb_status_inv"}
  /\ UNCHANGED op
  /\ CanWrite(obj[t])
  /\ IF status[obj[t]] # "DELETED"
       THEN /\ Finish(t, obj[t], "OK")
            /\ inventoryLock' =
                 IF pc[t] = "cb_status_inv" THEN inventoryLock - 1
                 ELSE inventoryLock
       ELSE /\ Goto(t, IF pc[t] = "cb_status_inv" THEN "cb_list_inv"
                       ELSE "cb_list")
            /\ UNCHANGED inventoryLock
  /\ UNCHANGED <<regVars, objVars, lockReaders, throwNotLoaded>>
  /\ UNCHANGED <<refVars, lockerVars, shutVars, effVars>>

\* DropCollectionCallback, second section: under the data-source write lock
\* the collection moves from _collections to _deadCollections; then
\* collection->drop()
DropCollectionCallbackList(t) ==
  /\ pc[t] \in {"cb_list", "cb_list_inv"}
  /\ UNCHANGED op
  /\ IF InSeq(collections, obj[t])
       THEN /\ collections' = RemoveFirst(collections, obj[t])
            /\ deadCollections' = Append(deadCollections, obj[t])
       ELSE UNCHANGED <<collections, deadCollections>>
  /\ Finish(t, obj[t], "OK")
  /\ inventoryLock' =
       IF pc[t] = "cb_list_inv" THEN inventoryLock - 1 ELSE inventoryLock
  /\ UNCHANGED <<byName, byId, byUuid, objVars, lockReaders, throwNotLoaded>>
  /\ UNCHANGED <<refVars, lockerVars, shutVars, effVars>>

\* LogicalCollection::rename / LogicalView::rename: the name changes only
\* if the persistence call succeeds
RenameName(names, o, n, ok) == IF ok THEN [names EXCEPT ![o] = n] ELSE names

\* a rename is over with result r (newName stays visible to the caller)
FinishRename(t, o, n, r) == Locals(t, "done", o, n, NoName, -1, 0, r)

\* renameCollection up to READ_LOCKER(_inventoryLock): oldName is copied
\* without any lock
RenameCollection(t, c, n) ==
  /\ pc[t] = "idle"
  /\ op' = [op EXCEPT ![t] = "renameCollection"]
  /\ c \in handles \cap Colls
  /\ IF name[c] = n
       THEN /\ FinishRename(t, c, n, "OK")
            /\ UNCHANGED inventoryLock
       ELSE /\ Locals(t, "rn_loop", c, n, name[c], -1, 0, "none")
            /\ inventoryLock' = inventoryLock + 1
  /\ UNCHANGED <<regVars, objVars, lockReaders, throwNotLoaded>>
  /\ UNCHANGED <<refVars, lockerVars, shutVars, effVars>>

\* the swap of the by-name entries in renameCollection:
\* emplace(newName, itr1->second); erase(oldName)
SwapNameEntries(bn, oldName, newName) ==
  Erase(Emplace(bn, newName, bn[oldName]), oldName)

\* renameCollection with both locks held (the loop ends when
\* locker.tryLock() succeeds): duplicate check, lookup of oldName,
\* collection->rename, swap of the map entries, engine->renameCollection
RenameCollectionWorker(t) ==
  /\ pc[t] = "rn_loop"
  /\ UNCHANGED op
  /\ CanWrite(obj[t])
  /\ LET c == obj[t] IN
       \/ /\ NameInUse(byName, nm[t])
          /\ FinishRename(t, c, nm[t], "DuplicateName")
          /\ UNCHANGED <<byName, name, invalidated, heldAtStorage>>
       \/ /\ ~NameInUse(byName, nm[t])
          /\ \/ byName[old[t]] = NoObj
             \/ Category(byName[old[t]]) # "collection"
          /\ FinishRename(t, c, nm[t], "NotFound")
          /\ UNCHANGED <<byName, name, invalidated, heldAtStorage>>
       \/ /\ ~NameInUse(byName, nm[t])
          /\ byName[old[t]] # NoObj
          /\ Category(byName[old[t]]) = "collection"
          /\ \E ok \in BOOLEAN : name' = RenameName(name, c, nm[t], ok)
          /\ byName' = SwapNameEntries(byName, old[t], nm[t])
          /\ \E r \in {"OK", "Error"} : FinishRename(t, c, nm[t], r)
          /\ invalidated' = [invalidated EXCEPT ![t] = TRUE]
          /\ heldAtStorage' =
               [heldAtStorage EXCEPT
                  ![t] = @ \cup {"inventory", "dataSource", "status"}]
  /\ inventoryLock' = inventoryLock - 1
  /\ UNCHANGED <<byId, byUuid, collections, deadCollections, status, deleted,
                 handles, deferred, lockReaders, throwNotLoaded>>
  /\ UNCHANGED <<refVars, lockerVars, shutVars, res2, engineDrops,
                 unloadCalled>>

\* renameView up to READ_LOCKER(_inventoryLock)
RenameView(t, v, n) ==
  /\ pc[t] = "idle"
  /\ op' = [op EXCEPT ![t] = "renameView"]
  /\ v \in handles \cap Views
  /\ IF name[v] = n
       THEN /\ FinishRename(t, v, n, "OK")
            /\ UNCHANGED inventoryLock
       ELSE /\ Locals(t, "rv_body", v, n, name[v], -1, 0, "none")
            /\ inventoryLock' = inventoryLock + 1
  /\ UNCHANGED <<regVars, objVars, lockReaders, throwNotLoaded>>
  /\ UNCHANGED <<refVars, lockerVars, shutVars, effVars>>

\* the test on the entry found under oldName in renameView
RenameViewNotFound(bn, oldName) ==
  bn[oldName] = NoObj \/ Category(bn[oldName]) = "view"

\* renameView under the data-source write lock
RenameViewWorker(t) ==
  /\ pc[t] = "rv_body"
  /\ UNCHANGED op
  /\ LET v == obj[t] IN
       \/ /\ NameInUse(byName, nm[t])
          /\ FinishRename(t, v, nm[t], "DuplicateName")
          /\ UNCHANGED <<byName, name, heldAtStorage>>
       \/ /\ ~NameInUse(byName, nm[t])
          /\ RenameViewNotFound(byName, old[t])
          /\ FinishRename(t, v, nm[t], "NotFound")
          /\ UNCHANGED <<byName, name, heldAtStorage>>
       \/ /\ ~NameInUse(byName, nm[t])
          /\ ~RenameViewNotFound(byName, old[t])
          /\ byName' = Erase(Emplace(byName, nm[t], v), old[t])
          /\ heldAtStorage' =
               [heldAtStorage EXCEPT ![t] = @ \cup {"inventory", "dataSource"}]
          /\ \/ /\ name' = RenameName(name, v, nm[t], FALSE)
                /\ FinishRename(t, v, nm[t], "Error")
             \/ /\ name' = RenameName(name, v, nm[t], TRUE)
                /\ \E r \in {"OK", "Error"} : FinishRename(t, v, nm[t], r)
  /\ inventoryLock' = inventoryLock - 1
  /\ UNCHANGED <<byId, byUuid, collections, deadCollections, status, deleted,
                 handles, deferred, lockReaders, throwNotLoaded>>
  /\ UNCHANGED <<refVars, lockerVars, shutVars, res2, invalidated,
                 engineDrops, unloadCalled>>

\* dropView(name): lookupView(name); absent: not found; else dropView(view)
\* up to READ_LOCKER(_inventoryLock) (the name argument stays visible to the
\* caller)
DropViewByName(t, n) ==
  /\ pc[t] = "idle"
  /\ op' = [op EXCEPT ![t] = "dropView"]
  /\ LET o == LookupView(byName, byUuid, n) IN
       IF o # NoObj
         THEN /\ Locals(t, "dv_loop", o, n, NoName, -1, 0, "none")
              /\ inventoryLock' = inventoryLock + 1
         ELSE /\ Locals(t, "done", NoObj, n, NoName, -1, 0, "NotFound")
              /\ UNCHANGED inventoryLock
  /\ UNCHANGED <<regVars, objVars, lockReaders, throwNotLoaded>>
  /\ UNCHANGED <<refVars, lockerVars, shutVars, effVars>>

\* dropView(view) up to READ_LOCKER(_inventoryLock)
DropView(t, v) ==
  /\ pc[t] = "idle"
  /\ op' = [op EXCEPT ![t] = "dropView"]
  /\ v \in handles \cap Views
  /\ Locals(t, "dv_loop", v, NoName, NoName, -1, 0, "none")
  /\ inventoryLock' = inventoryLock + 1
  /\ UNCHANGED <<regVars, objVars, lockReaders, throwNotLoaded>>
  /\ UNCHANGED <<refVars, lockerVars, shutVars, effVars>>

\* LogicalView::drop(): the view is flagged deleted
ViewDrop(del, v) == [del EXCEPT ![v] = TRUE]

\* dropView with both locks held: view->drop(); unregisterView(view)
DropViewWorker(t) ==
  /\ pc[t] = "dv_loop"
  /\ UNCHANGED op
  /\ CanWrite(obj[t])
  /\ LET v == obj[t]
         u == UnregisterViewMaps(byName, byId, v, name[v])
     IN
       /\ deleted' = ViewDrop(deleted, v)
       /\ byName' = u.bn /\ byId' = u.bi
       /\ Finish(t, v, "OK")
  /\ inventoryLock' = inventoryLock - 1
  /\ UNCHANGED <<byUuid, collections, deadCollections, name, status, handles,
                 deferred, lockReaders, throwNotLoaded>>
  /\ invalidated' = [invalidated EXCEPT ![t] = TRUE]
  /\ UNCHANGED <<refVars, lockerVars, shutVars, res2, heldAtStorage,
                 engineDrops, unloadCalled>>

\* inventory(): the call, up to WRITE_LOCKER_EVENTUAL(writeLock,
\* _inventoryLock)
Inventory(t) ==
  /\ pc[t] = "idle"
  /\ op' = [op EXCEPT ![t] = "inventory"]
  /\ Locals(t, "inv_wait", NoObj, NoName, NoName, -1, 0, "none")
  /\ UNCHANGED <<regVars, objVars, lockVars, throwNotLoaded>>
  /\ UNCHANGED <<refVars, lockerVars, shutVars, effVars>>

\* variant: an inventory lock that is granted exclusively at any time
CanLockInventoryAlways(n) == TRUE

\* the exclusive inventory lock can be acquired: no thread holds it shared
CanLockInventory(n) == n = 0

\* inventory() with the inventory lock held exclusively: _collections is
\* copied under the data-source read lock and every collection is read
\* under its status lock in shared mode; nothing is changed
InventoryLocked(t) ==
  /\ pc[t] = "inv_wait"
  /\ UNCHANGED op
  /\ CanLockInventory(inventoryLock)
  /\ Finish(t, NoObj, "OK")
  /\ UNCHANGED <<regVars, objVars, lockVars, throwNotLoaded>>
  /\ UNCHANGED <<refVars, lockerVars, shutVars, effVars>>

\* the operation returns to its caller
Return(t) ==
  /\ pc[t] = "done"
  /\ op' = [op EXCEPT ![t] = "none"]
  /\ Locals(t, "idle", NoObj, NoName, NoName, -1, 0, "none")
  /\ res2' = [res2 EXCEPT ![t] = "none"]
  /\ invalidated' = [invalidated EXCEPT ![t] = FALSE]
  /\ heldAtStorage' = [heldAtStorage EXCEPT ![t] = {}]
  /\ unloadCalled' = [unloadCalled EXCEPT ![t] = FALSE]
  /\ UNCHANGED <<regVars, objVars, lockVars, throwNotLoaded, engineDrops>>
  /\ UNCHANGED <<refVars, lockerVars, shutVars>>

Init ==
  /\ InitLockers
  /\ InitShutdown
  /\ InitMain
  /\ throwNotLoaded \in BOOLEAN
  /\ InitCounter
  /\ isSys = FALSE

Next ==
  \/ \E t \in Threads :
       \/ \E n \in Names : CreateCollection(t, n)
       \/ \E n \in Names : RegisterCollection(t, n)
       \/ \E n \in Names : CreateView(t, n)
       \/ \E n \in Names : LookupDataSource(t, n)
       \/ \E n \in Names : UseCollectionByName(t, n)
       \/ \E c \in Colls : UseCollection(t, c)
       \/ LoadCollectionRead(t)
       \/ LoadCollectionWrite(t)
       \/ LoadCollectionPoll(t)
       \/ LoadCollectionOpen(t)
       \/ LoadCollectionRelock(t)
       \/ \E c \in Colls : ReleaseCollection(t, c)
       \/ \E c \in Colls : UnloadCollection(t, c)
       \/ UnloadCollectionPoll(t)
       \/ \E c \in Colls, tm \in Timeouts : DropCollection(t, c, tm)
       \/ DropCollectionWorkerRetry(t)
       \/ DropCollectionWorker(t)
       \/ DropCollectionAgain(t)
       \/ DropCollectionPerform(t)
       \/ \E c \in Colls : CleanupDropCollection(t, c)
       \/ DropCollectionCallbackStatus(t)
       \/ DropCollectionCallbackList(t)
       \/ \E c \in Colls, n \in Names : RenameCollection(t, c, n)
       \/ RenameCollectionWorker(t)
       \/ \E v \in Views, n \in Names : RenameView(t, v, n)
       \/ RenameViewWorker(t)
       \/ \E n \in Names : DropViewByName(t, n)
       \/ \E v \in Views : DropView(t, v)
       \/ DropViewWorker(t)
       \/ Inventory(t)
       \/ InventoryLocked(t)
       \/ Return(t)
  \/ \E c \in Colls : UnloadCollectionCallback(c)

Spec == Init /\ [][Next]_vars

(***************************************************************************)
(* registerCollection and registerView on their own (SpecReg): the registry *)
(* holds any set of data-sources, and a caller registers an object whose    *)
(* name, identifier and uuid may each collide with a registered one         *)
(***************************************************************************)
\* the std::shared_ptr handed to registerCollection / registerView by t
RegObjOf(t) == IF t = "t1" THEN 3 ELSE 4

\* the object occurs in one of the maps or in the collection list
Registered(bn, bi, bu, list, o) ==
  \/ \E n \in Names : bn[n] = o
  \/ \E i \in Ids : bi[i] = o
  \/ \E u \in Uuids : bu[u] = o
  \/ InSeq(list, o)

\* a registry in which some of the data-sources are registered, each under
\* a name of its own
InitReg ==
  /\ name \in [Objs -> Names \cup {NoName}]
  /\ \A o1, o2 \in Objs :
       (o1 # o2 /\ name[o1] # NoName) => name[o1] # name[o2]
  /\ byName = [n \in Names |->
                 IF \E o \in Objs : name[o] = n
                   THEN CHOOSE o \in Objs : name[o] = n ELSE NoObj]
  /\ byId = [i \in Ids |->
               IF \E o \in Objs : idOf(o) = i /\ name[o] # NoName
                 THEN CHOOSE o \in Objs : idOf(o) = i /\ name[o] # NoName
                 ELSE NoObj]
  /\ byUuid = [u \in Uuids |->
                 IF \E c \in Colls : uuidOf(c) = u /\ name[c] # NoName
                   THEN CHOOSE c \in Colls : uuidOf(c) = u /\ name[c] # NoName
                   ELSE NoObj]
  /\ LET R == {c \in Colls : name[c] # NoName} IN
       collections \in {q \in [1 .. Cardinality(R) -> R] :
                          \A i, j \in DOMAIN q : i # j => q[i] # q[j]}
  /\ status = [c \in Colls |-> IF name[c] # NoName THEN "UNLOADED" ELSE "NONE"]
  /\ deadCollections = <<>>
  /\ deleted = [o \in Objs |-> FALSE]
  /\ handles = {o \in Objs : name[o] # NoName}
  /\ deferred = {}
  /\ inventoryLock = 0
  /\ lockReaders = [o \in Objs |-> [t \in Threads |-> 0]]
  /\ pc = [t \in Threads |-> "idle"]
  /\ op = [t \in Threads |-> "none"]
  /\ obj = [t \in Threads |-> NoObj]
  /\ nm = [t \in Threads |-> NoName]
  /\ old = [t \in Threads |-> NoName]
  /\ tmo = [t \in Threads |-> -1]
  /\ el = [t \in Threads |-> 0]
  /\ res = [t \in Threads |-> "none"]
  /\ res2 = [t \in Threads |-> "none"]
  /\ invalidated = [t \in Threads |-> FALSE]
  /\ heldAtStorage = [t \in Threads |-> {}]
  /\ engineDrops = [c \in Colls |-> 0]
  /\ unloadCalled = [t \in Threads |-> FALSE]
  /\ throwNotLoaded = FALSE
  /\ InitCounter
  /\ isSys = FALSE
  /\ InitLockers
  /\ InitShutdown

\* registerCollection(doLock = true, collection) for a collection that is
\* not registered, with name n, id and uuid (its status is set to UNLOADED
\* on success; the status of this object is no part of the state)
RegisterCollectionWithId(t, n, id, uuid) ==
  /\ pc[t] = "idle"
  /\ ~Registered(byName, byId, byUuid, collections, RegObjOf(t))
  /\ op' = [op EXCEPT ![t] = "registerCollection"]
  /\ LET c == RegObjOf(t)
         r == RegisterCollectionWith(byName, byId, byUuid, c, n, id, uuid)
     IN
       /\ byName' = r.bn /\ byId' = r.bi /\ byUuid' = r.bu
       /\ collections' = IF r.err = "OK" THEN Append(collections, c)
                                         ELSE collections
       /\ Locals(t, "done", c, n, NoName, -1, 0, r.err)
  /\ UNCHANGED <<deadCollections, objVars, lockVars, throwNotLoaded>>
  /\ UNCHANGED <<refVars, lockerVars, shutVars, effVars>>

\* registerView(doLock = true, view) for a view that is not registered, with
\* name n and identifier id
RegisterViewWithId(t, n, id) ==
  /\ pc[t] = "idle"
  /\ ~Registered(byName, byId, byUuid, collections, RegObjOf(t))
  /\ op' = [op EXCEPT ![t] = "registerView"]
  /\ LET v == RegObjOf(t)
         r == RegisterViewWith(byName, byId, v, n, id)
     IN
       /\ byName' = r.bn /\ byId' = r.bi
       /\ Locals(t, "done", v, n, NoName, -1, 0, r.err)
  /\ UNCHANGED <<byUuid, collections, deadCollections, objVars, lockVars,
                 throwNotLoaded>>
  /\ UNCHANGED <<refVars, lockerVars, shutVars, effVars>>

NextReg ==
  \E t \in Threads :
    \/ \E n \in Names, id \in Ids, uuid \in Uuids :
         RegisterCollectionWithId(t, n, id, uuid)
    \/ \E n \in Names, id \in Ids : RegisterViewWithId(t, n, id)
    \/ Return(t)

SpecReg == InitReg /\ [][NextReg]_vars

(***************************************************************************)
(* The reentrant lockers on (_dataSourceLock, _dataSourceLockWriteOwner)    *)
(* (SpecLock): every thread constructs and destroys lockers in scopes, a    *)
(* nested locker only inside a RecursiveWriteLocker, as TRI_vocbase_t does  *)
(***************************************************************************)
\* lockers alive in one thread at a time
MaxDepth == 2

\* ReadWriteLock: the write lock is free for a tryLock / lock
WriteLockFree(l) == l.writer = "none" /\ \A t \in Threads : l.readers[t] = 0

\* ReadWriteLock: a read lock can be taken
ReadLockFree(l) == l.writer = "none"

Top(t) == lockers[t][Len(lockers[t])]
SetTop(t, r) == [lockers EXCEPT ![t] = [@ EXCEPT ![Len(@)] = r]]
Push(t, r) == [lockers EXCEPT ![t] = Append(@, r)]
Pop(t) == [lockers EXCEPT ![t] = SubSeq(@, 1, Len(@) - 1)]

\* a locker may be constructed: the thread is not inside a locker call, and
\* an enclosing locker is a RecursiveWriteLocker
MayConstruct(t) ==
  /\ lpc[t] = "run"
  /\ Len(lockers[t]) < MaxDepth
  /\ lockers[t] # <<>> => Top(t).kind = "write"

\* RecursiveWriteLocker(mutex, owner, type, true): lock(), _locker.tryLock()
RecursiveWriteLockerTryLock(t) ==
  /\ MayConstruct(t)
  /\ IF WriteLockFree(dataSourceLock)
       THEN /\ dataSourceLock' = [dataSourceLock EXCEPT !.writer = t]
            /\ lockers' = Push(t, [kind |-> "write", locked |-> TRUE,
                                   update |-> "noop"])
            /\ lpc' = [lpc EXCEPT ![t] = "w_store"]
       ELSE /\ lockers' = Push(t, [kind |-> "write", locked |-> FALSE,
                                   update |-> "noop"])
            /\ lpc' = [lpc EXCEPT ![t] = "w_cmp"]
            /\ UNCHANGED dataSourceLock
  /\ UNCHANGED dataSourceLockWriteOwner
  /\ UNCHANGED <<refVars, mainVars, shutVars>>

\* RecursiveWriteLocker(mutex, owner, type, false): no lock() call, as for
\* the writeLocker of dropCollectionWorker, renameCollection and dropView
RecursiveWriteLockerDoNotLock(t) ==
  /\ MayConstruct(t)
  /\ lockers' = Push(t, [kind |-> "write", locked |-> FALSE,
                         update |-> "noop"])
  /\ UNCHANGED <<dataSourceLock, dataSourceLockWriteOwner, lpc>>
  /\ UNCHANGED <<refVars, mainVars, shutVars>>

\* writeLocker.lock() on a locker that does not hold the lock:
\* _locker.tryLock()
RecursiveWriteLockerLockAgain(t) ==
  /\ lpc[t] = "run"
  /\ lockers[t] # <<>>
  /\ Top(t).kind = "write" /\ Top(t).update = "noop"
  /\ IF WriteLockFree(dataSourceLock)
       THEN /\ dataSourceLock' = [dataSourceLock EXCEPT !.writer = t]
            /\ lockers' = SetTop(t, [Top(t) EXCEPT !.locked = TRUE])
            /\ lpc' = [lpc EXCEPT ![t] = "w_store"]
       ELSE /\ lpc' = [lpc EXCEPT ![t] = "w_cmp"]
            /\ UNCHANGED <<dataSourceLock, lockers>>
  /\ UNCHANGED dataSourceLockWriteOwner
  /\ UNCHANGED <<refVars, mainVars, shutVars>>

\* lock(): _owner.store(std::this_thread::get_id()); _update = owned
RecursiveWriteLockerStore(t) ==
  /\ lpc[t] = "w_store"
  /\ dataSourceLockWriteOwner' = t
  /\ lockers' = SetTop(t, [Top(t) EXCEPT !.update = "owned"])
  /\ lpc' = [lpc EXCEPT ![t] = "run"]
  /\ UNCHANGED dataSourceLock
  /\ UNCHANGED <<refVars, mainVars, shutVars>>

\* lock(): tryLock failed; std::this_thread::get_id() != _owner.load()
RecursiveWriteLockerCompare(t) ==
  /\ lpc[t] = "w_cmp"
  /\ lpc' = [lpc EXCEPT ![t] =
               IF dataSourceLockWriteOwner # t THEN "w_wait" ELSE "run"]
  /\ UNCHANGED <<dataSourceLock, dataSourceLockWriteOwner, lockers>>
  /\ UNCHANGED <<refVars, mainVars, shutVars>>

\* lock(): _locker.lock() returns once the write lock is free
RecursiveWriteLockerLock(t) ==
  /\ lpc[t] = "w_wait"
  /\ WriteLockFree(dataSourceLock)
  /\ dataSourceLock' = [dataSourceLock EXCEPT !.writer = t]
  /\ lockers' = SetTop(t, [Top(t) EXCEPT !.locked = TRUE])
  /\ lpc' = [lpc EXCEPT ![t] = "w_store"]
  /\ UNCHANGED dataSourceLockWriteOwner
  /\ UNCHANGED <<refVars, mainVars, shutVars>>

\* variant: an unlock() that clears the owner marker whatever _update is
ClearsOwnerAlways(r) == TRUE

\* unlock(): _update(*this) is owned(), which clears the owner marker, only
\* for a locker whose lock() has set the marker
ClearsOwner(r) == r.update = "owned"

\* ~RecursiveWriteLocker / unlock(): _locker.unlock(), that releases the
\* lock if this locker holds it; then _update(*this)
RecursiveWriteLockerUnlock(t) ==
  /\ lpc[t] = "run"
  /\ lockers[t] # <<>>
  /\ Top(t).kind = "write"
  /\ dataSourceLock' = IF Top(t).locked
                         THEN [dataSourceLock EXCEPT !.writer = "none"]
                         ELSE dataSourceLock
  /\ IF ClearsOwner(Top(t))
       THEN /\ lpc' = [lpc EXCEPT ![t] = "w_reset"]
            /\ lockers' = SetTop(t, [Top(t) EXCEPT !.locked = FALSE])
       ELSE /\ lockers' = Pop(t)
            /\ UNCHANGED lpc
  /\ UNCHANGED dataSourceLockWriteOwner
  /\ UNCHANGED <<refVars, mainVars, shutVars>>

\* owned(locker): locker._owner.store(unowned); locker._update = noop
RecursiveWriteLockerOwned(t) ==
  /\ lpc[t] = "w_reset"
  /\ dataSourceLockWriteOwner' = "none"
  /\ lockers' = Pop(t)
  /\ lpc' = [lpc EXCEPT ![t] = "run"]
  /\ UNCHANGED dataSourceLock
  /\ UNCHANGED <<refVars, mainVars, shutVars>>

\* RecursiveReadLocker(mutex, owner): _locker(&mutex, TRY, true)
RecursiveReadLockerTryLock(t) ==
  /\ MayConstruct(t)
  /\ IF ReadLockFree(dataSourceLock)
       THEN /\ dataSourceLock' =
                 [dataSourceLock EXCEPT !.readers[t] = @ + 1]
            /\ lockers' = Push(t, [kind |-> "read", locked |-> TRUE,
                                   update |-> "noop"])
            /\ UNCHANGED lpc
       ELSE /\ lockers' = Push(t, [kind |-> "read", locked |-> FALSE,
                                   update |-> "noop"])
            /\ lpc' = [lpc EXCEPT ![t] = "r_cmp"]
            /\ UNCHANGED dataSourceLock
  /\ UNCHANGED dataSourceLockWriteOwner
  /\ UNCHANGED <<refVars, mainVars, shutVars>>

\* RecursiveReadLocker: !_locker.isLocked() && owner.load() != get_id()
RecursiveReadLockerCompare(t) ==
  /\ lpc[t] = "r_cmp"
  /\ lpc' = [lpc EXCEPT ![t] =
               IF dataSourceLockWriteOwner # t THEN "r_wait" ELSE "run"]
  /\ UNCHANGED <<dataSourceLock, dataSourceLockWriteOwner, lockers>>
  /\ UNCHANGED <<refVars, mainVars, shutVars>>

\* RecursiveReadLocker: _locker.lock() returns once no writer holds the lock
RecursiveReadLockerLock(t) ==
  /\ lpc[t] = "r_wait"
  /\ ReadLockFree(dataSourceLock)
  /\ dataSourceLock' = [dataSourceLock EXCEPT !.readers[t] = @ + 1]
  /\ lockers' = SetTop(t, [Top(t) EXCEPT !.locked = TRUE])
  /\ lpc' = [lpc EXCEPT ![t] = "run"]
  /\ UNCHANGED dataSourceLockWriteOwner
  /\ UNCHANGED <<refVars, mainVars, shutVars>>

\* ~RecursiveReadLocker: the ReadLocker releases the lock if it holds it
RecursiveReadLockerUnlock(t) ==
  /\ lpc[t] = "run"
  /\ lockers[t] # <<>>
  /\ Top(t).kind = "read"
  /\ dataSourceLock' = IF Top(t).locked
                         THEN [dataSourceLock EXCEPT !.readers[t] = @ - 1]
                         ELSE dataSourceLock
  /\ lockers' = Pop(t)
  /\ UNCHANGED <<dataSourceLockWriteOwner, lpc>>
  /\ UNCHANGED <<refVars, mainVars, shutVars>>

InitLock ==
  /\ InitLockers
  /\ InitShutdown
  /\ InitMain
  /\ throwNotLoaded = FALSE
  /\ InitCounter
  /\ isSys = FALSE

NextLock ==
  \E t \in Threads :
    \/ RecursiveWriteLockerTryLock(t)
    \/ RecursiveWriteLockerDoNotLock(t)
    \/ RecursiveWriteLockerLockAgain(t)
    \/ RecursiveWriteLockerStore(t)
    \/ RecursiveWriteLockerCompare(t)
    \/ RecursiveWriteLockerLock(t)
    \/ RecursiveWriteLockerUnlock(t)
    \/ RecursiveWriteLockerOwned(t)
    \/ RecursiveReadLockerTryLock(t)
    \/ RecursiveReadLockerCompare(t)
    \/ RecursiveReadLockerLock(t)
    \/ RecursiveReadLockerUnlock(t)

SpecLock == InitLock /\ [][NextLock]_vars

(***************************************************************************)
(* shutdown(), step by step, on a database no operation is running on      *)
(* (SpecShutdown)                                                          *)
(***************************************************************************)

\* variant: a clear() that leaves the map as it is
ClearKeep(m) == m

\* std::unordered_map::clear()
Clear(m) == [k \in DOMAIN m |-> NoObj]

\* the database when shutdown() is called: any injectively named set of
\* objects; a collection is UNLOADED, LOADED, UNLOADING or CORRUPTED and
\* registered, or dropped (DELETED, in no map) and then either still in
\* _collections, its DropCollectionCallback deferred, or already in
\* _deadCollections
InitShut ==
  /\ name \in [Objs -> Names \cup {NoName}]
  /\ \A o1, o2 \in Objs :
       (o1 # o2 /\ name[o1] # NoName) => name[o1] # name[o2]
  /\ status \in [Colls -> {"NONE", "UNLOADED", "LOADED", "UNLOADING",
                           "CORRUPTED", "DELETED"}]
  /\ \A c \in Colls : status[c] = "NONE" <=> name[c] = NoName
  /\ deleted = [o \in Objs |-> o \in Colls /\ status[o] = "DELETED"]
  /\ LET In(o) == name[o] # NoName /\ ~deleted[o] IN
       /\ byName = [n \in Names |->
                      IF \E o \in Objs : In(o) /\ name[o] = n
                        THEN CHOOSE o \in Objs : In(o) /\ name[o] = n
                        ELSE NoObj]
       /\ byId = [i \in Ids |->
                    IF \E o \in Objs : In(o) /\ idOf(o) = i
                      THEN CHOOSE o \in Objs : In(o) /\ idOf(o) = i
                      ELSE NoObj]
       /\ byUuid = [u \in Uuids |->
                      IF \E c \in Colls : In(c) /\ uuidOf(c) = u
                        THEN CHOOSE c \in Colls : In(c) /\ uuidOf(c) = u
                        ELSE NoObj]
  /\ deferred \in SUBSET {c \in Colls : deleted[c]}
  /\ LET L == {c \in Colls : name[c] # NoName /\ (deleted[c] => c \in deferred)}
         D == {c \in Colls : deleted[c] /\ c \notin deferred}
     IN
       /\ collections \in {q \in [1 .. Cardinality(L) -> L] :
                             \A i, j \in DOMAIN q : i # j => q[i] # q[j]}
       /\ deadCollections \in {q \in [1 .. Cardinality(D) -> D] :
                                 \A i, j \in DOMAIN q : i # j => q[i] # q[j]}
  /\ handles = {o \in Objs : name[o] # NoName}
  /\ inventoryLock = 0
  /\ lockReaders = [o \in Objs |-> [t \in Threads |-> 0]]
  /\ pc = [t \in Threads |-> "idle"]
  /\ op = [t \in Threads |-> "none"]
  /\ obj = [t \in Threads |-> NoObj]
  /\ nm = [t \in Threads |-> NoName]
  /\ old = [t \in Threads |-> NoName]
  /\ tmo = [t \in Threads |-> -1]
  /\ el = [t \in Threads |-> 0]
  /\ res = [t \in Threads |-> "none"]
  /\ res2 = [t \in Threads |-> "none"]
  /\ invalidated = [t \in Threads |-> FALSE]
  /\ heldAtStorage = [t \in Threads |-> {}]
  /\ engineDrops = [c \in Colls |-> IF status[c] = "DELETED" THEN 1 ELSE 0]
  /\ unloadCalled = [t \in Threads |-> FALSE]
  /\ throwNotLoaded = FALSE
  /\ InitCounter
  /\ isSys = FALSE
  /\ InitLockers
  /\ InitShutdown

\* shutdown() up to the end of the first block: under RECURSIVE_READ_LOCKER
\* the list _collections is copied
Shutdown ==
  /\ spc = "idle"
  /\ snapshot' = collections
  /\ spc' = "loop"
  /\ UNCHANGED <<state, shutdownLog, closed, unloaded>>
  /\ UNCHANGED <<refVars, mainVars, lockerVars>>

\* shutdown(), one iteration of the loop over the copy, for its next
\* collection c: collection->close(); unloadCollection(collection, true),
\* which under WRITE_LOCKER_EVENTUAL makes a LOADED collection UNLOADING,
\* waits while the collection is LOADING and leaves any other status
ShutdownUnload(c) ==
  /\ spc = "loop"
  /\ \E i \in DOMAIN snapshot :
       /\ snapshot[i] = c
       /\ c \notin unloaded
       /\ \A j \in 1 .. (i - 1) : snapshot[j] \in unloaded
  /\ CanWrite(c)
  /\ status[c] # "LOADING"
  /\ closed' = closed \cup {c}
  /\ unloaded' = unloaded \cup {c}
  /\ status' = IF status[c] = "LOADED"
                 THEN SetStatus(status, c, "UNLOADING")
                 ELSE status
  /\ UNCHANGED <<state, shutdownLog, snapshot, spc>>
  /\ UNCHANGED <<regVars, name, deleted, handles, deferred, lockVars,
                 throwNotLoaded, thrVars, effVars>>
  /\ UNCHANGED <<refVars, lockerVars>>

\* shutdown(), after the loop: setState(State::SHUTDOWN_COMPACTOR)
ShutdownCompactor ==
  /\ spc = "loop"
  /\ \A i \in DOMAIN snapshot : snapshot[i] \in unloaded
  /\ state' = "SHUTDOWN_COMPACTOR"
  /\ shutdownLog' = Append(shutdownLog, "SHUTDOWN_COMPACTOR")
  /\ spc' = "engine"
  /\ UNCHANGED <<snapshot, closed, unloaded>>
  /\ UNCHANGED <<refVars, mainVars, lockerVars>>

\* shutdown(): engine->shutdownDatabase(this)
ShutdownDatabase ==
  /\ spc = "engine"
  /\ shutdownLog' = Append(shutdownLog, "shutdownDatabase")
  /\ spc' = "cleanup"
  /\ UNCHANGED <<state, snapshot, closed, unloaded>>
  /\ UNCHANGED <<refVars, mainVars, lockerVars>>

\* shutdown(): setState(State::SHUTDOWN_CLEANUP)
ShutdownCleanup ==
  /\ spc = "cleanup"
  /\ state' = "SHUTDOWN_CLEANUP"
  /\ shutdownLog' = Append(shutdownLog, "SHUTDOWN_CLEANUP")
  /\ spc' = "clear"
  /\ UNCHANGED <<snapshot, closed, unloaded>>
  /\ UNCHANGED <<refVars, mainVars, lockerVars>>

\* shutdown(): under RECURSIVE_WRITE_LOCKER the three maps are cleared
ShutdownClearMaps ==
  /\ spc = "clear"
  /\ byName' = Clear(byName)
  /\ byId' = Clear(byId)
  /\ byUuid' = Clear(byUuid)
  /\ spc' = "free"
  /\ UNCHANGED <<state, shutdownLog, snapshot, closed, unloaded>>
  /\ UNCHANGED <<collections, deadCollections, objVars, lockVars,
                 throwNotLoaded, thrVars, effVars>>
  /\ UNCHANGED <<refVars, lockerVars>>

\* shutdown(), the end: _deadCollections.clear(); getPhysical()->close()
\* for every collection; _collections.clear()
ShutdownFree ==
  /\ spc = "free"
  /\ deadCollections' = <<>>
  /\ collections' = <<>>
  /\ spc' = "returned"
  /\ UNCHANGED <<state, shutdownLog, snapshot, closed, unloaded>>
  /\ UNCHANGED <<byName, byId, byUuid, objVars, lockVars, throwNotLoaded,
                 thrVars, effVars>>
  /\ UNCHANGED <<refVars, lockerVars>>

\* the thread in shutdown() and the storage engine's unload
NextShutdown ==
  \/ Shutdown
  \/ \E c \in Colls : ShutdownUnload(c)
  \/ ShutdownCompactor
  \/ ShutdownDatabase
  \/ ShutdownCleanup
  \/ ShutdownClearMaps
  \/ ShutdownFree
  \/ \E c \in Colls : UnloadCollectionCallback(c)

SpecShutdown == InitShut /\ [][NextShutdown]_vars

(***************************************************************************)
(* The loop that acquires _dataSourceLock and the object's _lock together, *)
(* step by step, in dropCollectionWorker, renameCollection and dropView    *)
(* (SpecDual). A thread inside the loop has two lockers: writeLocker on    *)
(* _dataSourceLock and locker on the object's _lock.                       *)
(***************************************************************************)
\* positions of the three loops
LoopPcs == {"dcw_loop", "rn_loop", "dv_loop"}

\* no thread holds the write lock on the _lock of the object o
ObjectLockFree(o) ==
  \A u \in Threads :
    ~(obj[u] = o /\ Len(lockers[u]) = 2 /\ lockers[u][2].locked)

\* variant: a writeLocker.unlock() that keeps the lock
ReleaseWriterKeep(l) == l

\* writeLocker.unlock(): _locker.unlock()
ReleaseWriter(l) == [l EXCEPT !.writer = "none"]

\* writeLocker.lock() at the top of the loop: blocks until the write lock on
\* _dataSourceLock is free, takes it and stores the owner marker
LoopWriteLockerLock(t) ==
  /\ pc[t] \in LoopPcs
  /\ lpc[t] = "run"
  /\ WriteLockFree(dataSourceLock)
  /\ dataSourceLock' = [dataSourceLock EXCEPT !.writer = t]
  /\ dataSourceLockWriteOwner' = t
  /\ lockers' = [lockers EXCEPT ![t] =
                   <<[kind |-> "write", locked |-> TRUE, update |-> "owned"],
                     [kind |-> "object", locked |-> FALSE, update |-> "noop"]>>]
  /\ lpc' = [lpc EXCEPT ![t] = "try"]
  /\ UNCHANGED <<refVars, mainVars, shutVars>>

\* locker.tryLock() on the object's _lock: it never waits; on success the
\* loop is left with both locks
LoopLockerTryLock(t) ==
  /\ pc[t] \in LoopPcs
  /\ lpc[t] = "try"
  /\ IF CanWrite(obj[t]) /\ ObjectLockFree(obj[t])
       THEN /\ lockers' = [lockers EXCEPT ![t][2].locked = TRUE]
            /\ lpc' = [lpc EXCEPT ![t] = "both"]
       ELSE /\ lpc' = [lpc EXCEPT ![t] = "failed"]
            /\ UNCHANGED lockers
  /\ UNCHANGED <<dataSourceLock, dataSourceLockWriteOwner>>
  /\ UNCHANGED <<refVars, mainVars, shutVars>>

\* writeLocker.unlock() after the failed tryLock
LoopWriteLockerUnlock(t) ==
  /\ pc[t] \in LoopPcs
  /\ lpc[t] = "failed"
  /\ dataSourceLock' = ReleaseWriter(dataSourceLock)
  /\ dataSourceLockWriteOwner' = "none"
  /\ lockers' = [lockers EXCEPT ![t][1] =
                   [kind |-> "write", locked |-> FALSE, update |-> "noop"]]
  /\ lpc' = [lpc EXCEPT ![t] = "sleep"]
  /\ UNCHANGED <<refVars, mainVars, shutVars>>

\* the end of a failed round: dropCollectionWorker returns LOCK_TIMEOUT when
\* timeout >= 0.0 && TRI_microtime() > startTime + timeout; otherwise, and
\* always in renameCollection and dropView, yield(), sleep_for and the next
\* round
LoopSleep(t) ==
  /\ pc[t] \in LoopPcs
  /\ lpc[t] = "sleep"
  /\ lpc' = [lpc EXCEPT ![t] = "run"]
  /\ \E now \in el[t] .. MaxTime :
       IF pc[t] = "dcw_loop" /\ TimedOut(tmo[t], now)
         THEN /\ Finish(t, obj[t], "LockTimeout")
              /\ inventoryLock' = inventoryLock - 1
              /\ lockers' = [lockers EXCEPT ![t] = <<>>]
         ELSE /\ el' = [el EXCEPT ![t] =
                          IF pc[t] = "dcw_loop" THEN Min(now + 1, MaxTime)
                          ELSE @]
              /\ UNCHANGED <<pc, obj, nm, old, tmo, res, inventoryLock,
                             lockers>>
  /\ UNCHANGED <<op, regVars, objVars, lockReaders, throwNotLoaded, effVars>>
  /\ UNCHANGED <<dataSourceLock, dataSourceLockWriteOwner>>
  /\ UNCHANGED <<refVars, shutVars>>

\* locker.unlock(); writeLocker.unlock() (or the destructors of the two
\* lockers) at the end of the section that follows the loop
LoopUnlock(t) ==
  /\ pc[t] \notin LoopPcs
  /\ lpc[t] = "both"
  /\ dataSourceLock' = ReleaseWriter(dataSourceLock)
  /\ dataSourceLockWriteOwner' = "none"
  /\ lockers' = [lockers EXCEPT ![t] = <<>>]
  /\ lpc' = [lpc EXCEPT ![t] = "run"]
  /\ UNCHANGED <<refVars, mainVars, shutVars>>

\* the steps of a dropCollection call of t
DualDrop(t) ==
  \/ LoopWriteLockerLock(t)
  \/ LoopLockerTryLock(t)
  \/ LoopWriteLockerUnlock(t)
  \/ LoopSleep(t)
  \/ LoopUnlock(t)
  \/ lpc[t] = "both" /\ DropCollectionWorker(t)
  \/ lpc[t] = "run" /\ DropCollectionAgain(t)
  \/ lpc[t] = "run" /\ DropCollectionPerform(t)
  \/ /\ lpc[t] = "run" /\ ObjectLockFree(obj[t])
     /\ DropCollectionCallbackStatus(t)
  \/ /\ lpc[t] = "run" /\ WriteLockFree(dataSourceLock)
     /\ DropCollectionCallbackList(t)

\* the steps of a useCollection call of t
DualLoad(t) ==
  \/ /\ lpc[t] = "run" /\ ObjectLockFree(obj[t])
     /\ \/ LoadCollectionRead(t)
        \/ LoadCollectionWrite(t)
        \/ LoadCollectionRelock(t)
  \/ lpc[t] = "run" /\ LoadCollectionPoll(t)
  \/ lpc[t] = "run" /\ LoadCollectionOpen(t)

\* the calls a thread makes on a collection, the cleanup thread's start of a
\* deferred callback, and unloadCollection
DualCalls(t) ==
  /\ lpc[t] = "run"
  /\ \/ \E c \in Colls, tm \in Timeouts : DropCollection(t, c, tm)
     \/ \E c \in Colls : CleanupDropCollection(t, c)
     \/ \E c \in Colls : UseCollection(t, c)
     \/ \E c \in Colls : ReleaseCollection(t, c)
     \/ \E c \in Colls : ObjectLockFree(c) /\ UnloadCollection(t, c)
     \/ ObjectLockFree(obj[t]) /\ UnloadCollectionPoll(t)
     \/ Return(t)

\* renameCollection and dropView: the calls, and the sections after the loop
DualOther(t) ==
  \/ /\ lpc[t] = "run"
     /\ \/ \E c \in Colls, n \in Names : RenameCollection(t, c, n)
        \/ \E v \in Views : DropView(t, v)
  \/ lpc[t] = "both" /\ RenameCollectionWorker(t)
  \/ lpc[t] = "both" /\ DropViewWorker(t)

\* the storage engine's unload, which takes the collection's write lock
DualUnload == \E c \in Colls : ObjectLockFree(c) /\ UnloadCollectionCallback(c)

NextDual ==
  \/ \E t \in Threads :
       DualDrop(t) \/ DualLoad(t) \/ DualCalls(t) \/ DualOther(t)
  \/ DualUnload

SpecDual == InitReg /\ [][NextDual]_vars

(***************************************************************************)
(* dropCollection against useCollection and unloadCollection, under fair   *)
(* scheduling (SpecDrop): a thread inside dropCollection or loadCollection *)
(* goes on whenever it can again and again (every lock is granted to a     *)
(* thread that keeps asking for it, every sleep ends, open() terminates);  *)
(* no caller is obliged to make a call or to release a collection          *)
(***************************************************************************)
NextDrop ==
  \/ \E t \in Threads : DualDrop(t) \/ DualLoad(t) \/ DualCalls(t)
  \/ DualUnload

\* one collection, created and registered under the name "a"
InitDrop == InitReg /\ name[1] = "a" /\ name[2] = NoName

SpecDrop ==
  /\ InitDrop
  /\ [][NextDrop]_vars
  /\ \A t \in Threads : SF_vars(DualDrop(t)) /\ SF_vars(DualLoad(t))

(***************************************************************************)
(* Properties of the registry and of the lifecycle operations (Spec)       *)
(***************************************************************************)

\* C1: in every state in which no thread is inside an exclusive section of
\* the data-source lock (every state of this model: the sections are single
\* steps), size(byName) = size(byId) and size(byUuid) <= size(byId).
C1_RegistryCountInvariant == CheckCollectionInvariants(byName, byId, byUuid)

\* threads that are between collection->open() and the setStatus(LOADED)
\* that follows it, for the collection c
Opening(c) == {t \in Threads : obj[t] = c /\ pc[t] \in {"lc_open", "lc_relock"}}

LoadPcs ==
  {"lc_read", "lc_retry", "lc_write", "lc_poll", "lc_open", "lc_relock"}

DropUntouched ==
  UNCHANGED <<byName, byId, byUuid, collections, deadCollections, status,
              deleted, name>>

\* C7: a dropCollection call returns LockTimeout only from the retry loop,
\* with timeout >= 0 and the collection's status lock held shared; that step
\* and every earlier step of the call (taking the inventory lock, failed
\* tryLock rounds, DROP_AGAIN rounds) leave the three maps, the status, the
\* deleted flag, the name and the collection lists unchanged.
C7_DropTimeoutChangesNothing ==
  [][\A t \in Threads :
       /\ (pc[t] # "done" /\ pc'[t] = "done" /\ res'[t] = "LockTimeout")
            => /\ pc[t] = "dcw_loop"
               /\ op[t] = "dropCollection"
               /\ tmo[t] >= 0
               /\ ~NoReaders(obj[t])
               /\ DropUntouched
       /\ (/\ op'[t] = "dropCollection"
           /\ pc'[t] \in {"dcw_loop", "dc_again"}
           /\ <<pc[t], el[t]>> # <<pc'[t], el'[t]>>)
            => DropUntouched
    ]_vars

C7_Witness ==
  \E t \in Threads :
    /\ pc[t] = "done"
    /\ op[t] = "dropCollection"
    /\ res[t] = "LockTimeout"
    /\ status[obj[t]] = "LOADED"
    /\ \E u \in Threads \ {t} : lockReaders[obj[t]][u] > 0
    /\ byName[name[obj[t]]] = obj[t]

\* a step of thread t inside the loop of dropCollectionWorker
DropLoopStep(t) ==
  /\ pc[t] = "dcw_loop"
  /\ op[t] = "dropCollection"
  /\ <<pc[t], el[t]>> # <<pc'[t], el'[t]>>

RenameOps == {"renameCollection", "renameView"}

\* a step that ends a rename call of thread t whose newName is a key of the
\* by-name map
RenameToUsedName(t) ==
  /\ op'[t] \in RenameOps
  /\ pc[t] # "done"
  /\ pc'[t] = "done"
  /\ byName[nm'[t]] # NoObj

DropAbsentView(t) ==
  /\ pc[t] = "idle"
  /\ op'[t] = "dropView"
  /\ nm'[t] # NoName
  /\ byName[nm'[t]] \notin Views

\* dropCollectionWorker takes both locks of a collection that is DELETED
DropDeleted(t) ==
  /\ DropLoopStep(t)
  /\ NoReaders(obj[t])
  /\ status[obj[t]] = "DELETED"

RegistryUntouched == UNCHANGED <<regVars, objVars>>

RefStepOf(t) ==
  <<rpc[t], rop[t], expected[t], rres[t], held[t]>>' #
  <<rpc[t], rop[t], expected[t], rres[t], held[t]>>

\* C2: once the deleted bit is set, every step of a use() call leaves the
\* counter unchanged, and a use() call that returns then returns false,
\* whatever release()/markAsDropped()/use() calls run concurrently.
C2_UseFailsOnceDropped ==
  [][\A t \in Threads :
       (/\ RefStepOf(t)
        /\ refCount % 2 = 1
        /\ (rpc[t] = "use_loop" \/ rpc'[t] = "use_loop"))
       => (/\ refCount' = refCount
           /\ (rpc'[t] = "done" => rres'[t] = FALSE))]_vars

\* a use() call has returned false on a dropped database that still has users
C2_Witness ==
  \E t \in Threads :
    /\ rpc[t] = "done" /\ rop[t] = "use" /\ rres[t] = FALSE
    /\ refCount % 2 = 1 /\ refCount >= 3

\* C3: the counter always equals twice the number of unreleased successful
\* uses plus one if the database was marked dropped; hence, for a non-system
\* database, isDangling() is false while not marked, and true exactly when
\* marked and every use has been released.
C3_RefCountParity ==
  /\ refCount = 2 * TotalHeld + (IF marked THEN 1 ELSE 0)
  /\ (~isSys =>
        (IsDangling(isSys, refCount) <=> (marked /\ TotalHeld = 0)))

\* the last user of a dropped database has just released it: it is dangling
C3_Witness ==
  \E t \in Threads :
    /\ rpc[t] = "done" /\ rop[t] = "release"
    /\ marked /\ TotalHeld = 0 /\ refCount = 1

\* C4: a markAsDropped() call returns true exactly when no earlier call has
\* taken effect, and no step of any call ever clears the deleted bit.
C4_MarkAsDroppedIdempotent ==
  [][/\ \A t \in Threads :
          (RefStepOf(t) /\ rpc'[t] = "done" /\ rop'[t] = "markAsDropped")
          => (rres'[t] = ~marked)
     /\ (refCount % 2 = 1 => refCount' % 2 = 1)]_vars

\* two calls have finished: one returned true, the other false
C4_Witness ==
  \E t, u \in Threads :
    /\ t # u
    /\ rpc[t] = "done" /\ rop[t] = "markAsDropped" /\ rres[t] = TRUE
    /\ rpc[u] = "done" /\ rop[u] = "markAsDropped" /\ rres[u] = FALSE

\* C5: isDangling() answers true iff the database is not the system database
\* and the counter is exactly 1; isDropped() answers true iff the counter is
\* odd (so a dropped database with users is dropped but not dangling).
C5_IsDanglingIffOne ==
  [][\A t \in Threads :
       (RefStepOf(t) /\ rpc'[t] = "done")
       => (/\ (rop'[t] = "isDangling"
                 => (rres'[t] <=> (~isSys /\ refCount = 1)))
           /\ (rop'[t] = "isDropped"
                 => (rres'[t] <=> (refCount % 2 = 1))))]_vars

\* isDangling() has answered false on a dropped database that still has users
C5_Witness ==
  \E t \in Threads :
    /\ rpc[t] = "done" /\ rop[t] = "isDangling" /\ rres[t] = FALSE
    /\ refCount % 2 = 1 /\ refCount >= 3


(***************************************************************************)
(* Properties of registration (SpecReg)                                    *)
(***************************************************************************)
\* C11: a registerCollection or registerView call that fails (duplicate
\* name, duplicate id or duplicate uuid) leaves the three maps and the
\* collection list exactly as they were, so every entry that existed before
\* is still there with the same object, and the object that was being
\* registered occurs in none of them.
C11_RegistrationAllOrNothing ==
  [][\A t \in Threads :
       (/\ pc[t] = "idle"
        /\ op'[t] \in {"registerCollection", "registerView"}
        /\ res'[t] # "OK") =>
         /\ res'[t] \in {"DuplicateName", "DuplicateIdentifier"}
         /\ byName' = byName /\ byId' = byId /\ byUuid' = byUuid
         /\ collections' = collections
         /\ ~Registered(byName', byId', byUuid', collections', RegObjOf(t))]_vars

\* a registerCollection call has failed on a duplicate uuid, after its
\* by-name and by-id entries had been added, while another data-source is
\* registered
C11_Witness ==
  \E t \in Threads :
    /\ pc[t] = "done" /\ op[t] = "registerCollection"
    /\ res[t] = "DuplicateIdentifier"
    /\ byName[nm[t]] = NoObj
    /\ \E i \in Ids : byId[i] = NoObj
    /\ \E u \in Uuids : byUuid[u] # NoObj

(***************************************************************************)
(* Further properties of the registry and of the lifecycle (Spec)          *)
(***************************************************************************)

C14_HeldCollectionIsStable ==
  [][/\ \A t \in Threads :
          (pc[t] \in LoadPcs /\ pc'[t] = "done" /\ res'[t] = "OK") =>
            /\ lockReaders'[obj[t]][t] = lockReaders[obj[t]][t] + 1
            /\ status'[obj[t]] = "LOADED"
     /\ \A c \in Colls :
          ~NoReaders(c) =>
            /\ status'[c] = "LOADED"
            /\ name'[c] = name[c]
            /\ \A n \in Names : (byName'[n] = c) <=> (byName[n] = c)
            /\ byId'[idOf(c)] = byId[idOf(c)]
            /\ byUuid'[uuidOf(c)] = byUuid[uuidOf(c)]]_vars

\* thread t cannot go on before thread u gives up a lock: t is in
\* inventory() waiting for the exclusive inventory lock that u holds shared
\* (u is inside dropCollection, renameCollection, renameView or dropView),
\* or t waits (for ever: a drop with a timeout gives up) for the exclusive
\* status lock of a collection whose status lock u holds shared
WaitsFor(t, u) ==
  /\ t # u
  /\ \/ /\ pc[t] = "inv_wait"
        /\ pc[u] \in {"dcw_loop", "cb_status_inv", "cb_list_inv", "rn_loop",
                      "rv_body", "dv_loop"}
     \/ /\ pc[t] \in {"lc_write", "lc_relock", "dcw_loop", "rn_loop",
                      "cb_status", "cb_status_inv", "ul_poll"}
        /\ pc[t] = "dcw_loop" => tmo[t] < 0
        /\ pc[t] = "ul_poll" => status[obj[t]] # "LOADING"
        /\ lockReaders[obj[t]][u] > 0

\* C15: in no reachable state is there a non-empty set of threads each of
\* which is blocked waiting for a lock (inventory lock, data-source lock or
\* a status lock) that another thread of the set holds.
C15_NoDeadlock ==
  \A S \in SUBSET Threads :
    S # {} => \E t \in S : \A u \in S : ~WaitsFor(t, u)

(***************************************************************************)
(* Properties of the reentrant lockers (SpecLock)                          *)
(***************************************************************************)

\* C16: a thread that has acquired the data-source lock through a
\* RecursiveWriteLocker and constructs, before releasing it, a
\* RecursiveReadLocker or a second RecursiveWriteLocker on the same lock and
\* owner never ends up in the blocking lock() call of that nested locker.
C16_NestedLockerNeverBlocks ==
  \A t \in Threads :
    (/\ Len(lockers[t]) = 2
     /\ lockers[t][1].kind = "write"
     /\ lockers[t][1].locked) => lpc[t] \notin {"w_wait", "r_wait"}

C18_ReadersSeeWholeObjects ==
  \A t \in Threads :
    pc[t] = "idle" =>
      /\ Size(byName) = Size(byId) /\ Size(byUuid) <= Size(byId)
      /\ \A o \in Objs :
           LET inName == \E n \in Names : byName[n] = o
               inId == byId[idOf(o)] = o
               inUuid == o \in Colls => byUuid[uuidOf(o)] = o
               noUuid == o \in Colls => byUuid[uuidOf(o)] # o
           IN \/ inName /\ inId /\ inUuid
              \/ ~inName /\ ~inId /\ noUuid

\* C19: when dropCollection fails in its persistence step (changeCollection
\* throws for an UNLOADED collection, updateProperties returns an error for
\* a LOADED or UNLOADING one), the error is returned, the collection's
\* deleted flag is false, its status is unchanged and it is still
\* registered as before.
C19_FailedDropRollsBack ==
  [][\A t \in Threads :
       (/\ op[t] = "dropCollection" /\ pc[t] = "dcw_loop"
        /\ pc'[t] = "done" /\ res'[t] = "Error") =>
         /\ ~deleted'[obj[t]]
         /\ status'[obj[t]] = status[obj[t]]
         /\ byName' = byName /\ byId' = byId /\ byUuid' = byUuid
         /\ collections' = collections]_vars

\* C20: when the persistence-facing rename call (collection->rename,
\* view->rename) fails inside renameCollection or renameView, so that the
\* object keeps its name, then on return the new name is no key of the
\* by-name map, the old name key maps to what it mapped to before, and the
\* caller gets the error.
C20_FailedRenameRollsBack ==
  [][\A t \in Threads :
       (/\ pc[t] \in {"rn_loop", "rv_body"} /\ pc'[t] = "done"
        /\ res'[t] \notin {"DuplicateName", "NotFound"}
        /\ name[obj[t]] # nm[t]
        /\ name'[obj[t]] = name[obj[t]]) =>
         /\ byName'[nm[t]] = NoObj
         /\ byName'[old[t]] = byName[old[t]]
         /\ res'[t] = "Error"]_vars

(***************************************************************************)
(* Persistence, the query cache and the locks held at storage calls (Spec) *)
(***************************************************************************)

\* C21: when persistence fails during createCollection (either
\* persistPhysicalCollection throws or engine->persistCollection returns an
\* error), the new collection stays registered in the three maps, the
\* caller is given its handle, and the caller is told of the error
C21_PersistFailureKeepsHandle ==
  [][\A t \in Threads :
       (/\ pc[t] = "idle" /\ pc'[t] = "done"
        /\ op'[t] = "createCollection"
        /\ obj'[t] # NoObj
        /\ (res'[t] = "Error" \/ res2'[t] = "Error")) =>
         /\ byName'[nm'[t]] = obj'[t]
         /\ byId'[idOf(obj'[t])] = obj'[t]
         /\ byUuid'[uuidOf(obj'[t])] = obj'[t]
         /\ obj'[t] \in handles'
         /\ res'[t] # "OK"]_vars

\* C22: every successful createCollection, createView, dropCollection,
\* dropView, renameCollection and renameView (a rename to the name the
\* object already has changes nothing and is left out) has called
\* QueryCache::invalidate for the database before it returns
C22_StructuralChangeInvalidatesCache ==
  [][\A t \in Threads :
       (/\ pc[t] # "done" /\ pc'[t] = "done"
        /\ res'[t] = "OK"
        /\ op'[t] \in {"createCollection", "createView", "dropCollection",
                       "dropView", "renameCollection", "renameView"}
        /\ ~(pc[t] = "idle" /\ op'[t] \in {"renameCollection", "renameView"}))
         => invalidated'[t]]_vars

\* C23: the storage calls that may block on I/O (open,
\* persistPhysicalCollection, persistCollection, changeCollection,
\* updateProperties, the persistence of a rename) are made while the
\* calling thread holds at most the status lock of the object: never the
\* inventory lock, never the data-source lock
C23_StorageCallsUnderStatusLockOnly ==
  \A t \in Threads : heldAtStorage[t] \subseteq {"status"}

(***************************************************************************)
(* The status of a collection while it is loaded and dropped (Spec)        *)
(***************************************************************************)

\* C24: DELETED and CORRUPTED are terminal: no step of load/use, unload,
\* drop, rename or DropCollectionCallback, in any interleaving, changes the
\* status of a collection that is DELETED or CORRUPTED
C24_DeletedAndCorruptedAreTerminal ==
  [][\A c \in Colls :
       status[c] \in {"DELETED", "CORRUPTED"} => status'[c] = status[c]]_vars

\* a dropCollection has run on a CORRUPTED collection and has left it so
C24_Witness ==
  \E t \in Threads :
    /\ pc[t] = "done" /\ op[t] = "dropCollection"
    /\ obj[t] \in Colls
    /\ res[t] = "Internal"
    /\ status[obj[t]] = "CORRUPTED"

(***************************************************************************)
(* Renaming a view (Spec)                                                  *)
(***************************************************************************)

\* C25: renameView of a registered view to a name that is not in use, with
\* no persistence call failing, returns success; afterwards the new name
\* leads to the view, the old name to nothing, and the by-id entry is as
\* before
C25_RenameViewSucceeds ==
  [][\A t \in Threads :
       (/\ pc[t] = "rv_body" /\ pc'[t] = "done"
        /\ byName[old[t]] = obj[t]
        /\ byId[idOf(obj[t])] = obj[t]
        /\ ~NameInUse(byName, nm[t])
        /\ res'[t] # "Error") =>
         /\ res'[t] = "OK"
         /\ byName'[nm[t]] = obj[t]
         /\ byName'[old[t]] = NoObj
         /\ byId'[idOf(obj[t])] = obj[t]]_vars

(***************************************************************************)
(* Properties of shutdown (SpecShutdown)                                   *)
(***************************************************************************)

\* C26: once shutdown() has returned, the three maps, _collections and
\* _deadCollections are empty, close and unloadCollection have been called
\* on every collection that was in _collections when shutdown() copied it,
\* and the lifecycle state has gone from NORMAL to SHUTDOWN_COMPACTOR and
\* then to SHUTDOWN_CLEANUP, with engine->shutdownDatabase between the two
C26_ShutdownLeavesNothing ==
  spc = "returned" =>
    /\ Size(byName) = 0 /\ Size(byId) = 0 /\ Size(byUuid) = 0
    /\ collections = <<>>
    /\ deadCollections = <<>>
    /\ \A i \in DOMAIN snapshot : snapshot[i] \in closed \cap unloaded
    /\ state = "SHUTDOWN_CLEANUP"
    /\ shutdownLog =
         <<"SHUTDOWN_COMPACTOR", "shutdownDatabase", "SHUTDOWN_CLEANUP">>

\* shutdown() has returned on a database that had a registered collection
\* and a registered view
C26_Witness ==
  /\ spc = "returned"
  /\ snapshot # <<>>
  /\ \E c \in Colls : name[c] # NoName /\ ~deleted[c]
  /\ \E v \in Views : name[v] # NoName

(***************************************************************************)
(* Loading a collection while it is dropped (Spec)                         *)
(***************************************************************************)

\* C27: when a drop of the collection has been observed while a thread is
\* in the LOADING phase of loadCollection (a dropCollection call has found
\* the collection LOADING and waits to try again, or the deleted flag of
\* the collection is set), the loader, once it has the status lock again,
\* returns not-found and does not set the status to LOADED
C27_LoaderAbortsOnDrop ==
  [][\A t \in Threads :
       (/\ pc[t] = "lc_relock" /\ pc'[t] # "lc_relock"
        /\ \/ deleted[obj[t]]
           \/ \E u \in Threads \ {t} :
                /\ op[u] = "dropCollection" /\ obj[u] = obj[t]
                /\ pc[u] = "dc_again") =>
         /\ pc'[t] = "done"
         /\ res'[t] = "NotFound"
         /\ status'[obj[t]] # "LOADED"]_vars

\* C28: the assertion of loadCollection holds in every interleaving: when
\* the loading thread has the status write lock again after open()
\* returned, the status of the collection is still LOADING
C28_StatusStillLoading ==
  [][\A t \in Threads :
       (pc[t] = "lc_relock" /\ pc'[t] # "lc_relock") =>
         status[obj[t]] = "LOADING"]_vars

\* the loader has set LOADED after open() while the other thread, an
\* unloadCollection that found the collection LOADING, is still waiting
C28_Witness ==
  \E t \in Threads : \E u \in Threads \ {t} :
    /\ op[t] = "useCollection" /\ pc[t] = "lc_read"
    /\ status[obj[t]] = "LOADED"
    /\ op[u] = "unloadCollection" /\ pc[u] = "ul_poll"
    /\ obj[u] = obj[t]

(***************************************************************************)
(* The owner marker of the reentrant lockers (SpecLock)                    *)
(***************************************************************************)

\* C29: from the return of a RecursiveWriteLocker::lock() that acquired the
\* lock until the thread begins the matching unlock(), the owner marker is
\* the id of that thread, whatever other threads do with lockers on the
\* same lock and owner
C29_OwnerMarkerAccurate ==
  \A t \in Threads :
    (\E i \in DOMAIN lockers[t] :
       /\ lockers[t][i].kind = "write"
       /\ lockers[t][i].locked
       /\ lockers[t][i].update = "owned") => dataSourceLockWriteOwner = t

C31_NoSleepUnderDataSourceLock ==
  \A t \in Threads :
    /\ lpc[t] = "sleep" =>
         /\ dataSourceLock.writer # t
         /\ ~lockers[t][1].locked /\ ~lockers[t][2].locked
    /\ lpc[t] = "try" =>
         /\ dataSourceLock.writer = t
         /\ ENABLED LoopLockerTryLock(t)
    /\ lpc[t] = "failed" => ENABLED LoopWriteLockerUnlock(t)
    /\ lpc[t] = "both" =>
         /\ dataSourceLock.writer = t
         /\ lockers[t][1].locked /\ lockers[t][2].locked
         /\ NoReaders(obj[t])
         /\ \A u \in Threads \ {t} : lpc[u] # "both"

\* C31 happens: a dropCollection sleeps between two rounds because another
\* thread holds the collection's lock shared, while that thread has both
\* locks in dropView
C31_Witness ==
  \E t, u \in Threads :
    /\ pc[t] = "dcw_loop" /\ lpc[t] = "sleep"
    /\ lockReaders[obj[t]][u] > 0
    /\ pc[u] = "dv_loop" /\ lpc[u] = "both"


\* C32: a dropCollection call that returns success after its switch found
\* the collection UNLOADED, LOADED or UNLOADING leaves it with status
\* DELETED, with the deleted flag set and in none of the three maps; and in
\* every reachable state a collection with status DELETED has its deleted
\* flag set and no key of the three maps leads to it.
C32_DroppedIsDeletedAndUnregistered ==
  [][LET Unregistered(bn, bi, bu, c) ==
           /\ \A n \in Names : bn[n] # c
           /\ \A i \in Ids : bi[i] # c
           /\ \A u \in Uuids : bu[u] # c
     IN
       /\ \A c \in Colls :
            status'[c] = "DELETED" =>
              deleted'[c] /\ Unregistered(byName', byId', byUuid', c)
       /\ \A t \in Threads :
            (/\ op[t] = "dropCollection"
             /\ pc[t] \in {"dc_perform", "cb_status_inv", "cb_list_inv",
                           "cb_status", "cb_list"}
             /\ pc'[t] = "done" /\ res'[t] = "OK") =>
              /\ status'[obj[t]] = "DELETED"
              /\ deleted'[obj[t]]
              /\ Unregistered(byName', byId', byUuid', obj[t])]_vars


\* C33: whatever dropCollection, useCollection and unloadCollection calls
\* run concurrently on a collection, engine->dropCollection is called at
\* most once for it; and a dropCollection call whose switch finds the
\* status DELETED returns success without calling it.
C33_PhysicalDropAtMostOnce ==
  [][/\ \A c \in Colls : engineDrops'[c] <= 1
     /\ \A t \in Threads :
          (/\ op[t] = "dropCollection" /\ pc[t] = "dcw_loop"
           /\ pc'[t] # "dcw_loop"
           /\ status[obj[t]] = "DELETED") =>
            /\ pc'[t] = "done" /\ res'[t] = "OK"
            /\ engineDrops' = engineDrops]_vars

\* C33 happens: a dropCollection call returned success on a collection that
\* another call had dropped before, while a third call is on its way
C33_Witness ==
  \E t, u \in Threads :
    /\ t # u
    /\ op[t] = "dropCollection" /\ pc[t] = "done" /\ res[t] = "OK"
    /\ engineDrops[obj[t]] = 1
    /\ invalidated[t] /\ heldAtStorage[t] = {}
    /\ op[u] = "dropCollection" /\ pc[u] = "dcw_loop" /\ obj[u] = obj[t]


(***************************************************************************)
(* unloadCollection and the cancelled unload (Spec)                        *)
(***************************************************************************)

C35_CancelledUnloadSucceeds ==
  [][\A t \in Threads :
       LET c == obj[t] IN
         /\ (/\ pc[t] = "lc_write" /\ pc'[t] # "lc_write"
             /\ status[c] = "UNLOADING" /\ ~deleted[c]) =>
              /\ status' = [status EXCEPT ![c] = "LOADED"]
              /\ pc'[t] = "lc_retry"
         /\ (/\ pc[t] = "lc_write" /\ pc'[t] # "lc_write"
             /\ status[c] = "UNLOADING" /\ deleted[c]) =>
              /\ pc'[t] = "done" /\ res'[t] = "NotFound"
              /\ status' = status
         /\ (pc[t] = "lc_retry" /\ pc'[t] # "lc_retry") =>
              /\ pc'[t] = "done" /\ res'[t] = "OK"
              /\ lockReaders'[c][t] = lockReaders[c][t] + 1]_vars

\* C35, amended: the call sets the status back to LOADED without calling
\* open() and runs loadCollection again with no lock held in between; that
\* second run returns success holding the read lock if the status is still
\* LOADED, and otherwise acts on the status it finds. With the deleted flag
\* set the call returns data-source-not-found and leaves the status.
C35_CancelledUnloadRetries ==
  [][\A t \in Threads :
       LET c == obj[t] IN
         /\ (/\ pc[t] = "lc_write" /\ pc'[t] # "lc_write"
             /\ status[c] = "UNLOADING" /\ ~deleted[c]) =>
              /\ status' = [status EXCEPT ![c] = "LOADED"]
              /\ pc'[t] = "lc_retry"
              /\ lockReaders' = lockReaders
         /\ (/\ pc[t] = "lc_write" /\ pc'[t] # "lc_write"
             /\ status[c] = "UNLOADING" /\ deleted[c]) =>
              /\ pc'[t] = "done" /\ res'[t] = "NotFound"
              /\ status' = status
         /\ (pc[t] = "lc_retry" /\ pc'[t] # "lc_retry") =>
              /\ status' = status
              /\ IF status[c] = "LOADED"
                   THEN /\ pc'[t] = "done" /\ res'[t] = "OK"
                        /\ lockReaders'[c][t] = lockReaders[c][t] + 1
                   ELSE /\ lockReaders' = lockReaders
                        /\ \/ pc'[t] = "lc_write"
                           \/ /\ pc'[t] = "done"
                              /\ res'[t] = GiveUpError(status[c])]_vars

\* C35 happens: a loadCollection call has cancelled the unload that another
\* thread's unloadCollection started
C35_Witness ==
  \E t, u \in Threads :
    /\ op[t] = "useCollection" /\ pc[t] = "lc_retry"
    /\ status[obj[t]] = "LOADED"
    /\ op[u] = "unloadCollection" /\ pc[u] = "done" /\ unloadCalled[u]
    /\ obj[u] = obj[t]


(***************************************************************************)
(* The maps, the names and the two collection lists (Spec)                 *)
(***************************************************************************)

\* C36: in every state in which no thread holds the data-source lock
\* exclusively (every state of Spec: the exclusive sections are single
\* steps), every by-name key is the name of the object it leads to, every
\* object found in one of the two maps is under exactly one by-name key and
\* exactly one by-id key, and no two registered objects have the same name
\* or the same id; also after a rename whose persistence step failed.
C36_NameKeyConsistency ==
  LET InName(o) == {n \in Names : byName[n] = o}
      InId(o) == {i \in Ids : byId[i] = o}
      Reg == {o \in Objs : InName(o) # {} \/ InId(o) # {}}
  IN
    /\ \A n \in Names : byName[n] # NoObj => name[byName[n]] = n
    /\ \A o \in Reg :
         Cardinality(InName(o)) = 1 /\ Cardinality(InId(o)) = 1
    /\ \A o1, o2 \in Reg :
         o1 # o2 => name[o1] # name[o2] /\ idOf(o1) # idOf(o2)


\* C37: in every state in which the data-source lock is not held
\* exclusively (every state of Spec) no collection with status DELETED is
\* in the active list _collections, no collection is in both lists, and
\* every collection in the dead list _deadCollections has status DELETED.
C37_DeletedLeavesActiveList ==
  \A c \in Colls :
    /\ status[c] = "DELETED" => ~InSeq(collections, c)
    /\ ~(InSeq(collections, c) /\ InSeq(deadCollections, c))
    /\ InSeq(deadCollections, c) => status[c] = "DELETED"


\* C38: every collection in the active list _collections whose status is
\* neither DELETED nor CORRUPTED is found in the by-id map under its id,
\* also after a createCollection whose persistPhysicalCollection threw.
C38_ActiveListIsRegistered ==
  \A c \in Colls :
    (InSeq(collections, c) /\ status[c] \notin {"DELETED", "CORRUPTED"}) =>
      byId[idOf(c)] = c


(***************************************************************************)
(* Termination of dropCollection (SpecDrop)                                *)
(***************************************************************************)
\* C39 as stated: a dropCollection call with timeout >= 0 eventually returns
C39_DropEventuallyReturns ==
  \A t \in Threads :
    (pc[t] = "dcw_loop" /\ tmo[t] >= 0) ~> (pc[t] = "done")

\* C39: a call of dropCollectionWorker with timeout >= 0 eventually ends,
\* either in the return of dropCollection or in DROP_AGAIN (the collection
\* was LOADING), after which dropCollection sleeps and calls the worker anew;
\* with a negative timeout the loop is left only with both locks held, and
\* never with LockTimeout
C39_DropRoundEnds ==
  /\ \A t \in Threads :
       (pc[t] = "dcw_loop" /\ tmo[t] >= 0)
         ~> (pc[t] = "done" \/ pc[t] = "dc_again")
  /\ [][\A t \in Threads :
          (pc[t] = "dcw_loop" /\ tmo[t] < 0 /\ pc'[t] # "dcw_loop")
            => (lpc[t] = "both" /\ res'[t] # "LockTimeout")]_vars

\* a dropCollection call returned LockTimeout while another thread still
\* holds the read lock it was given by useCollection
C39_Witness ==
  \E t, u \in Threads :
    /\ t # u
    /\ op[t] = "dropCollection" /\ pc[t] = "done" /\ res[t] = "LockTimeout"
    /\ op[u] = "useCollection" /\ pc[u] = "done" /\ res[u] = "OK"
    /\ lockReaders[obj[t]][u] > 0


(***************************************************************************)
(* The frame of unregisterCollection and unregisterView (Spec)             *)
(***************************************************************************)
\* C40: in a step of dropCollectionWorker or of dropView, the only steps
\* that call unregisterCollection / unregisterView on a registered object,
\* the maps stay as they are when the object's id is not in the by-id map
\* or leads to an object of the other category; otherwise a successful step
\* leaves no entry under the object's id, current name and uuid; and every
\* entry that goes was an entry of that object
C40_UnregisterFrame ==
  [][\A t \in Threads :
       (pc[t] \in {"dcw_loop", "dv_loop"} /\ pc'[t] # pc[t]) =>
         LET o == obj[t]
             found == /\ byId[idOf(o)] # NoObj
                      /\ Category(byId[idOf(o)]) = Category(o)
         IN  /\ ~found => UNCHANGED <<byName, byId, byUuid>>
             /\ (found /\ res'[t] = "OK") =>
                  /\ byId'[idOf(o)] = NoObj
                  /\ byName'[name[o]] = NoObj
                  /\ o \in Colls => byUuid'[uuidOf(o)] = NoObj
             /\ \A n \in Names : byName'[n] # byName[n] => byName[n] = o
             /\ \A i \in Ids : byId'[i] # byId[i] => byId[i] = o
             /\ \A u \in Uuids : byUuid'[u] # byUuid[u] => byUuid[u] = o
    ]_vars

====
